---------------------------- MODULE Spec2Model ----------------------------
(***************************************************************************)
(* Model of the smartmeter ingest pipeline (smartmeter/digimeter.py and    *)
(* smartmeter/utils.py): telegram framing in read_serial / fake_serial,    *)
(* CRC validation in check_msg, decoding in parse / autoformat, timestamp  *)
(* normalisation in convert_timestamp / calculate_timestamp_drift.         *)
(*                                                                         *)
(* Byte strings and text are sequences of byte values 0..255.  The module  *)
(* level name `log` of digimeter.py is bound by fake_serial only, and that *)
(* of main.py by main_worker only: `log` records which of the two are      *)
(* bound in the process, and a function that reads an unbound one raises   *)
(* NameError.  What is logged has no effect on the modelled state.         *)
(***************************************************************************)
EXTENDS Integers, Sequences, FiniteSets, TLC

VARIABLES
    log,                         \* the module globals `log` of digimeter.py and main.py: bound or not
    source,                      \* the worker function called last: "serial", "fake", or "none"
    telegram,                    \* read_serial / fake_serial: the frame buffer
    start_of_telegram_detected,  \* read_serial: CAPTURING (TRUE) or IDLE (FALSE)
    telegram_count,              \* read_serial: end markers seen
    msg_q,                       \* the message queue (records, oldest first)
    eof,                         \* fake_serial: the replay file is exhausted
    worker_exc,                  \* the exception that ended that call, or "none"
    reads,                       \* number of loop iterations done (logical time)
    last,                        \* observation of the last loop iteration
    mon,                         \* observation of the input since the beginning
    crc_stage,                   \* check_msg harness: position of the caller
    crc_content,                 \* check_msg harness: frame content before the checksum
    crc_frame,                   \* check_msg harness: the frame handed to check_msg
    crc_result,                  \* check_msg harness: what check_msg returned or raised
    fn_call,                     \* the function called directly last, or "none"
    fn_in,                       \* its argument
    fn_out,                      \* what the call returned or raised
    lm,                          \* LoadManager: max_consume, max_inject, consume_time, inject_time
    load_value,                  \* Load._load.value: 1 while the load is on, else 0
    state_start_time,            \* Load.state_start_time
    timer_start_time,            \* Timer._start_time
    timer_type,                  \* Timer.timer_type
    time,                        \* time(), in ticks
    lm_last,                     \* observation of the last process() call
    unit_last,                   \* observation of the last direct call of a Load method
    csv_cfg,                     \* CSVWriter: write_every, max_lines, max_age
    batch,                       \* CSVWriter.batch
    lines_written,               \* CSVWriter.lines_written
    create_time,                 \* CSVWriter.create_time
    filehandler,                 \* CSVWriter.filehandler: "None", "open" or "closed"
    filename,                    \* CSVWriter.filename: the second the open file is named after
    csv_rows,                    \* the rows of the file that is open, header aside
    csv_files,                   \* the files under their final names, oldest first
    csv_in,                      \* the telegrams handed to write(), oldest first
    csv_last,                    \* observation of the last call of a CSVWriter method
    csv_pc,                      \* the CSVWriter call that is in sleep(1), or "idle"
    qr_cfg,                      \* queue_reader: which of loads, db, csv_writer are not None
    qr_pc,                       \* queue_reader: position in the loop body
    qr_data,                     \* queue_reader: data, the record in hand
    msg_count,                   \* queue_reader: msg_count
    q_buffer,                    \* the queue: records put but not yet in the pipe
    qr_put,                      \* the records put on the queue, oldest first
    qr_got,                      \* the records queue_reader got, oldest first
    qr_log,                      \* what queue_reader did, oldest first
    qr_points                    \* the points written to InfluxDB for the record in hand

vars == <<log, source, telegram, start_of_telegram_detected, telegram_count, msg_q,
          eof, worker_exc, reads, last, mon, crc_stage, crc_content, crc_frame, crc_result,
          fn_call, fn_in, fn_out,
          lm, load_value, state_start_time, timer_start_time, timer_type, time,
          lm_last,
          unit_last,
          csv_cfg, batch, lines_written, create_time, filehandler, filename, csv_rows, csv_files, csv_in, csv_last, csv_pc,
          qr_cfg, qr_pc, qr_data, msg_count, q_buffer, qr_put, qr_got, qr_log, qr_points>>

workerVars == <<source, telegram, start_of_telegram_detected, telegram_count,
                msg_q, eof, worker_exc, reads, last, mon>>

procVars == <<log>>

crcVars == <<crc_stage, crc_content, crc_frame, crc_result>>

fnVars == <<fn_call, fn_in, fn_out>>

loadVars == <<lm, load_value, state_start_time, timer_start_time, timer_type,
              time, lm_last>>

unitVars == <<unit_last>>

csvVars == <<csv_cfg, batch, lines_written, create_time, filehandler, filename, csv_rows, csv_files, csv_in, csv_last, csv_pc>>

readerVars == <<qr_cfg, qr_pc, qr_data, msg_count, q_buffer, qr_put, qr_got, qr_log, qr_points>>

---------------------------------------------------------------------------
(* Bounds of the model. *)

\* loop iterations of the ingest worker that are explored
MaxReads == 5
\* longest frame content drawn for the check_msg harness
MaxContentLen == 3

---------------------------------------------------------------------------
(* Bytes and text helpers. *)

Min(a, b) == IF a < b THEN a ELSE b

\* b"..."[lo:hi] and "..."[lo:hi] of Python (0-based, hi exclusive, clipped)
Slice(s, lo, hi) == SubSeq(s, lo + 1, Min(hi, Len(s)))

\* s.startswith(p)
StartsWith(s, p) == Len(s) >= Len(p) /\ SubSeq(s, 1, Len(p)) = p

IsDigit(b) == b >= 48 /\ b <= 57
IsUpper(b) == b >= 65 /\ b <= 90

\* bytes.strip(), and what int() and float() skip: \t \n \v \f \r and space
BytesSpace == {9, 10, 11, 12, 13, 32}
\* str.strip() on ASCII text: the above and the separators 0x1c..0x1f
StrSpace == {9, 10, 11, 12, 13, 28, 29, 30, 31, 32}

RECURSIVE LStrip(_, _)
LStrip(s, ws) ==
    IF s # <<>> /\ Head(s) \in ws THEN LStrip(Tail(s), ws) ELSE s

RECURSIVE RStrip(_, _)
RStrip(s, ws) ==
    IF s # <<>> /\ s[Len(s)] \in ws THEN RStrip(SubSeq(s, 1, Len(s) - 1), ws) ELSE s

Strip(s, ws) == RStrip(LStrip(s, ws), ws)

\* bytes.find(b"!"): 1-based index of the first '!', 0 when there is none
\* (Python's pos is this minus one, so "not found" is pos = -1)
FindBang(s) ==
    IF \E i \in 1..Len(s) : s[i] = 33
    THEN CHOOSE i \in 1..Len(s) : s[i] = 33 /\ \A j \in 1..(i - 1) : s[j] # 33
    ELSE 0

\* The value of a one-element set.  Operators below bind intermediate
\* results as elements of one-element sets, so that each is computed once.
The(S) == CHOOSE x \in S : TRUE

\* bit i of a
Bit(a, i) == (a \div (2 ^ i)) % 2

\* a ^ b on 4-bit values, tabulated
Xor4 ==
    [a \in 0..15 |-> [b \in 0..15 |->
        ((Bit(a, 0) + Bit(b, 0)) % 2) + (((Bit(a, 1) + Bit(b, 1)) % 2) * 2)
        + (((Bit(a, 2) + Bit(b, 2)) % 2) * 4) + (((Bit(a, 3) + Bit(b, 3)) % 2) * 8)]]

\* a ^ b on 8-bit values
Xor8(a, b) == (16 * Xor4[a \div 16][b \div 16]) + Xor4[a % 16][b % 16]

\* a ^ b on 16-bit values
Xor(a, b) == (256 * Xor8(a \div 256, b \div 256)) + Xor8(a % 256, b % 256)

---------------------------------------------------------------------------
(* Crc16Lha.calc: CRC-16/ARC, polynomial 0x8005 reflected (0xA001),        *)
(* initial value 0, no final xor, computed from a 256-entry table as the   *)
(* library does.                                                           *)

CrcPolyReflected == 40961

\* one bit of the register shifted out
CrcShift(c) == IF c % 2 = 1 THEN Xor(c \div 2, CrcPolyReflected) ELSE c \div 2

CrcTable ==
    [b \in 0..255 |->
        CrcShift(CrcShift(CrcShift(CrcShift(
        CrcShift(CrcShift(CrcShift(CrcShift(b))))))))]

\* the register c after byte b
CrcByte(c, b) == Xor(c \div 256, CrcTable[Xor8(c % 256, b)])

\* the register after the bytes data[lo..hi]; c is the register before
\* them (the range is halved to keep the evaluation shallow)
RECURSIVE CrcFrom(_, _, _, _)
CrcFrom(c, data, lo, hi) ==
    IF lo > hi THEN c
    ELSE IF lo = hi THEN CrcByte(c, data[lo])
    ELSE The({ CrcFrom(m, data, ((lo + hi) \div 2) + 1, hi) :
               m \in {CrcFrom(c, data, lo, (lo + hi) \div 2)} })

Crc16Lha(data) == The({ CrcFrom(0, d, 1, Len(d)) : d \in {data} })

---------------------------------------------------------------------------
(* int(text, 16) of Python on a byte string. *)

HexDigitVal(b) ==
    IF IsDigit(b) THEN b - 48
    ELSE IF b >= 65 /\ b <= 70 THEN b - 55
    ELSE IF b >= 97 /\ b <= 102 THEN b - 87
    ELSE -1

\* the value of the digits s after acc.  Python integers are unbounded;
\* values of 2^26 and more are all shown as 2^26, which no checksum reaches.
RECURSIVE HexValue(_, _)
HexValue(acc, s) ==
    IF s = <<>> THEN acc
    ELSE IF Head(s) = 95 THEN HexValue(acc, Tail(s))
    ELSE IF HexDigitVal(Head(s)) < 0 THEN 0
    ELSE HexValue(Min((16 * acc) + HexDigitVal(Head(s)), 2 ^ 26), Tail(s))

\* digits with single underscores between them; a leading underscore only
\* directly after a 0x prefix
HexDigitsOk(s, prefixed) ==
    /\ s # <<>>
    /\ \A i \in 1..Len(s) : HexDigitVal(s[i]) >= 0 \/ s[i] = 95
    /\ HexDigitVal(s[Len(s)]) >= 0
    /\ prefixed \/ HexDigitVal(s[1]) >= 0
    /\ \A i \in 1..(Len(s) - 1) : ~(s[i] = 95 /\ s[i + 1] = 95)

\* the digits of a stripped text u that carries no sign
IntDigits(u) ==
    IF Len(u) >= 2 /\ u[1] = 48 /\ u[2] \in {88, 120}
    THEN [ok |-> HexDigitsOk(SubSeq(u, 3, Len(u)), TRUE),
          val |-> HexValue(0, SubSeq(u, 3, Len(u)))]
    ELSE [ok |-> HexDigitsOk(u, FALSE), val |-> HexValue(0, u)]

\* int() of a stripped text s
IntStripped(s) ==
    IF s # <<>> /\ Head(s) = 45
    THEN [ok |-> IntDigits(Tail(s)).ok, val |-> 0 - IntDigits(Tail(s)).val]
    ELSE IF s # <<>> /\ Head(s) = 43 THEN IntDigits(Tail(s))
    ELSE IntDigits(s)

\* int(text.strip(), 16): [ok |-> the text is accepted, val |-> its value];
\* not ok is ValueError
IntBase16(text) == IntStripped(Strip(text, BytesSpace))

---------------------------------------------------------------------------
(* check_msg *)

\* lines 70-80: the verdict given what int() made of the provided checksum
\* and the checksum calculated over data
CrcMatch(provided, calculated) == provided.ok /\ provided.val = calculated

\* lines 68-72 with pos + 1 = p
CheckAt(raw_msg, p) ==
    CrcMatch(IntBase16(SubSeq(raw_msg, p + 1, Len(raw_msg))),
             Crc16Lha(SubSeq(raw_msg, 1, p)))

\* check_msg(raw_msg): [exc, ret].  The log.debug of line 66 is its first
\* statement that runs, outside the try block: while log is unbound it
\* raises NameError
check_msg(raw_msg) ==
    IF ~log.digimeter THEN [exc |-> "NameError", ret |-> FALSE]
    ELSE [exc |-> "none", ret |-> CheckAt(raw_msg, FindBang(raw_msg))]

---------------------------------------------------------------------------
(* autoformat (utils.py).  A value is [t |-> "int", v |-> n],               *)
(* [t |-> "float", v |-> text] or [t |-> "str", v |-> text]; float values   *)
(* keep the text float() accepted.  exc is the exception raised, if any.    *)

AllDigits(s) == s # <<>> /\ \A i \in 1..Len(s) : IsDigit(s[i])

RECURSIVE DecValue(_, _)
DecValue(acc, s) ==
    IF s = <<>> THEN acc ELSE DecValue((10 * acc) + (Head(s) - 48), Tail(s))

RECURSIVE SkipDigits(_)
SkipDigits(s) == IF s # <<>> /\ IsDigit(Head(s)) THEN SkipDigits(Tail(s)) ELSE s

\* what is left of s after a float() digit part: digits, single underscores
\* allowed between two digits
RECURSIVE SkipDigitPart(_)
SkipDigitPart(s) ==
    IF s # <<>> /\ IsDigit(Head(s)) THEN SkipDigitPart(Tail(s))
    ELSE IF Len(s) >= 2 /\ Head(s) = 95 /\ IsDigit(s[2]) THEN SkipDigitPart(Tail(s))
    ELSE s

\* re.match(r"^\d+$", value): "$" also matches before a final newline
MatchesInt(value) ==
    \/ AllDigits(value)
    \/ Len(value) >= 2 /\ value[Len(value)] = 10
                       /\ AllDigits(SubSeq(value, 1, Len(value) - 1))

\* re.match(r"\d+\.\d+", value): a prefix test
MatchesFloat(value) ==
    LET r == SkipDigits(value)
    IN  /\ value # <<>> /\ IsDigit(Head(value))
        /\ Len(r) >= 2 /\ r[1] = 46 /\ IsDigit(r[2])

\* float(value) on a value that MatchesFloat: the whole text has to be a
\* float literal (fraction, optional exponent, trailing whitespace)
FloatAccepts(value) ==
    LET v     == RStrip(value, BytesSpace)
        frac  == Tail(SkipDigits(v))
        r     == SkipDigitPart(frac)
        e     == IF r # <<>> /\ Head(r) \in {69, 101} THEN Tail(r) ELSE <<>>
        eu    == IF e # <<>> /\ Head(e) \in {43, 45} THEN Tail(e) ELSE e
    IN  \/ r = <<>>
        \/ /\ Head(r) \in {69, 101}
           /\ eu # <<>> /\ IsDigit(Head(eu))
           /\ SkipDigitPart(eu) = <<>>

autoformat(value) ==
    IF MatchesInt(value)
    THEN [exc |-> "none", t |-> "int", v |-> DecValue(0, RStrip(value, {10}))]
    ELSE IF MatchesFloat(value)
    THEN IF FloatAccepts(value)
         THEN [exc |-> "none", t |-> "float", v |-> RStrip(value, BytesSpace)]
         ELSE [exc |-> "ValueError", t |-> "float", v |-> value]
    ELSE [exc |-> "none", t |-> "str", v |-> value]

---------------------------------------------------------------------------
(* parse (digimeter.py) *)

FIELDS ==
  <<
    \* 0-0:1.0.0
    [code |-> <<48, 45, 48, 58, 49, 46, 48, 46, 48>>,
     key |-> "timestamp", start |-> 10, end |-> 23],
    \* 1-0:1.8.1
    [code |-> <<49, 45, 48, 58, 49, 46, 56, 46, 49>>,
     key |-> "total_consumption_day", start |-> 10, end |-> 20],
    \* 1-0:1.8.2
    [code |-> <<49, 45, 48, 58, 49, 46, 56, 46, 50>>,
     key |-> "total_consumption_night", start |-> 10, end |-> 20],
    \* 1-0:2.8.1
    [code |-> <<49, 45, 48, 58, 50, 46, 56, 46, 49>>,
     key |-> "total_injection_day", start |-> 10, end |-> 20],
    \* 1-0:2.8.2
    [code |-> <<49, 45, 48, 58, 50, 46, 56, 46, 50>>,
     key |-> "total_injection_night", start |-> 10, end |-> 20],
    \* 0-0:96.14.0
    [code |-> <<48, 45, 48, 58, 57, 54, 46, 49, 52, 46, 48>>,
     key |-> "actual_tariff", start |-> 12, end |-> 16],
    \* 1-0:1.7.0
    [code |-> <<49, 45, 48, 58, 49, 46, 55, 46, 48>>,
     key |-> "actual_total_consumption", start |-> 10, end |-> 16],
    \* 1-0:2.7.0
    [code |-> <<49, 45, 48, 58, 50, 46, 55, 46, 48>>,
     key |-> "actual_total_injection", start |-> 10, end |-> 16],
    \* 1-0:21.7.0
    [code |-> <<49, 45, 48, 58, 50, 49, 46, 55, 46, 48>>,
     key |-> "actual_l1_consumption", start |-> 11, end |-> 17],
    \* 1-0:41.7.0
    [code |-> <<49, 45, 48, 58, 52, 49, 46, 55, 46, 48>>,
     key |-> "actual_l2_consumption", start |-> 11, end |-> 17],
    \* 1-0:61.7.0
    [code |-> <<49, 45, 48, 58, 54, 49, 46, 55, 46, 48>>,
     key |-> "actual_l3_consumption", start |-> 11, end |-> 17],
    \* 1-0:22.7.0
    [code |-> <<49, 45, 48, 58, 50, 50, 46, 55, 46, 48>>,
     key |-> "actual_l1_injection", start |-> 11, end |-> 17],
    \* 1-0:42.7.0
    [code |-> <<49, 45, 48, 58, 52, 50, 46, 55, 46, 48>>,
     key |-> "actual_l2_injection", start |-> 11, end |-> 17],
    \* 1-0:62.7.0
    [code |-> <<49, 45, 48, 58, 54, 50, 46, 55, 46, 48>>,
     key |-> "actual_l3_injection", start |-> 11, end |-> 17],
    \* 1-0:32.7.0
    [code |-> <<49, 45, 48, 58, 51, 50, 46, 55, 46, 48>>,
     key |-> "l1_voltage", start |-> 11, end |-> 16],
    \* 1-0:52.7.0
    [code |-> <<49, 45, 48, 58, 53, 50, 46, 55, 46, 48>>,
     key |-> "l2_voltage", start |-> 11, end |-> 16],
    \* 1-0:72.7.0
    [code |-> <<49, 45, 48, 58, 55, 50, 46, 55, 46, 48>>,
     key |-> "l3_voltage", start |-> 11, end |-> 16],
    \* 1-0:31.7.0
    [code |-> <<49, 45, 48, 58, 51, 49, 46, 55, 46, 48>>,
     key |-> "l1_current", start |-> 11, end |-> 17],
    \* 1-0:51.7.0
    [code |-> <<49, 45, 48, 58, 53, 49, 46, 55, 46, 48>>,
     key |-> "l2_current", start |-> 11, end |-> 17],
    \* 1-0:71.7.0
    [code |-> <<49, 45, 48, 58, 55, 49, 46, 55, 46, 48>>,
     key |-> "l3_current", start |-> 11, end |-> 17],
    \* 0-1:24.2.3
    [code |-> <<48, 45, 49, 58, 50, 52, 46, 50, 46, 51>>,
     key |-> "total_gas_consumption", start |-> 26, end |-> 35],
    \* 0-1:24.2.3
    [code |-> <<48, 45, 49, 58, 50, 52, 46, 50, 46, 51>>,
     key |-> "gas_timestamp", start |-> 11, end |-> 24]
  >>

\* str.splitlines() on ASCII text: the boundaries are \n \r \r\n \v \f and
\* 0x1c..0x1e; a final boundary adds no empty line
LineBreaks == {10, 11, 12, 13, 28, 29, 30}

\* position i of s is where a line boundary ends (\r\n is one boundary)
IsBreakEnd(s, i) ==
    /\ s[i] \in LineBreaks
    /\ ~(s[i] = 13 /\ i < Len(s) /\ s[i + 1] = 10)

\* where the boundary that ends at i starts
BreakStart(s, i) == IF s[i] = 10 /\ i > 1 /\ s[i - 1] = 13 THEN i - 1 ELSE i

\* the lines of s, given the set E of positions where its boundaries end
LinesBetween(s, E) ==
    [k \in 1..(Cardinality(E) + (IF \E i \in 1..Len(s) : \A e \in E : e < i
                                 THEN 1 ELSE 0)) |->
        IF k <= Cardinality(E)
        THEN LET e == CHOOSE x \in E : Cardinality({y \in E : y < x}) = k - 1
                 b == IF k = 1 THEN 0
                      ELSE CHOOSE x \in E : Cardinality({y \in E : y < x}) = k - 2
             IN  SubSeq(s, b + 1, BreakStart(s, e) - 1)
        ELSE SubSeq(s, (CHOOSE x \in E \cup {0} : \A y \in E : y <= x) + 1, Len(s))]

SplitLines(s) == LinesBetween(s, {i \in 1..Len(s) : IsBreakEnd(s, i)})

\* msg[key] = val
DictSet(msg, key, val) ==
    [k \in (DOMAIN msg) \cup {key} |-> IF k = key THEN val ELSE msg[k]]

\* line 51 for one FIELDS entry f, a being autoformat's result
StoreField(st, f, a) ==
    IF a.exc # "none" THEN [exc |-> a.exc, msg |-> st.msg]
    ELSE [exc |-> "none", msg |-> DictSet(st.msg, f.key, [t |-> a.t, v |-> a.v])]

\* lines 49-51: the inner loop over FIELDS[i..] for one line; st is
\* [exc, msg], and an exception ends the loop
RECURSIVE ParseFields(_, _, _)
ParseFields(st, line, i) ==
    IF i > Len(FIELDS) \/ st.exc # "none" THEN st
    ELSE IF StartsWith(line, FIELDS[i].code)
    THEN ParseFields(StoreField(st, FIELDS[i],
                                autoformat(Slice(line, FIELDS[i].start, FIELDS[i].end))),
                     line, i + 1)
    ELSE ParseFields(st, line, i + 1)

\* line 48: the outer loop over lines[k..]
RECURSIVE ParseLines(_, _, _)
ParseLines(st, lines, k) ==
    IF k > Len(lines) \/ st.exc # "none" THEN st
    ELSE ParseLines(ParseFields(st, lines[k], 1), lines, k + 1)

\* lines 46-53 of parse at wall-clock time now: [exc, msg]
ParseTelegram(raw_msg, now) ==
    ParseLines([exc |-> "none",
                msg |-> [k \in {"local_timestamp"} |-> [t |-> "now", v |-> now]]],
               SplitLines(Strip(raw_msg, StrSpace)), 1)

\* parse(raw_msg) at wall-clock time now: [exc, msg].  The log.debug of line
\* 44 is its first statement: while log is unbound it raises NameError
parse(raw_msg, now) ==
    IF ~log.digimeter THEN [exc |-> "NameError", msg |-> <<>>]
    ELSE ParseTelegram(raw_msg, now)

---------------------------------------------------------------------------
(* convert_timestamp and calculate_timestamp_drift (utils.py) *)

NoneValue == [t |-> "None", v |-> <<>>]

\* queue_data.get(key)
DictGet(msg, key) == IF key \in DOMAIN msg THEN msg[key] ELSE NoneValue

\* tz_map with the two offsets exchanged
TzMapExchanged(c) == IF c = 83 THEN <<48, 49, 58, 48, 48>>
                     ELSE <<48, 50, 58, 48, 48>>

\* tz_map
TzMap(c) == IF c = 83 THEN <<48, 50, 58, 48, 48>>      \* "S": "02:00"
            ELSE <<48, 49, 58, 48, 48>>                \* "W": "01:00"

\* convert_timestamp(timestamp): [exc, iso].  None, int and float values
\* are not subscriptable (TypeError); "" is the ValueError of line 84; a
\* last character other than S or W is the KeyError of tz_map.
convert_timestamp(timestamp) ==
    IF timestamp.t # "str" THEN [exc |-> "TypeError", iso |-> <<>>]
    ELSE IF timestamp.v = <<>> THEN [exc |-> "ValueError", iso |-> <<>>]
    ELSE IF timestamp.v[Len(timestamp.v)] \notin {83, 87}
    THEN [exc |-> "KeyError", iso |-> <<>>]
    ELSE LET ts == timestamp.v
         IN  [exc |-> "none",
              iso |-> <<50, 48>> \o Slice(ts, 0, 2) \o <<45>> \o Slice(ts, 2, 4)
                      \o <<45>> \o Slice(ts, 4, 6) \o <<84>> \o Slice(ts, 6, 8)
                      \o <<58>> \o Slice(ts, 8, 10) \o <<58>> \o Slice(ts, 10, 12)
                      \o <<43>> \o TzMap(ts[Len(ts)])]

DaysInMonth(y, m) ==
    IF m = 2 THEN (IF y % 4 = 0 /\ (y % 100 # 0 \/ y % 400 = 0) THEN 29 ELSE 28)
    ELSE IF m \in {4, 6, 9, 11} THEN 30 ELSE 31

\* the text is YYYY-MM-DDTHH:MM:SS+HH:MM, separators and sign as written
\* here, with every field a number in its calendar range and an offset of
\* less than a day
IsoWellFormed(iso) ==
    /\ Len(iso) = 25
    /\ iso[5] = 45 /\ iso[8] = 45 /\ iso[11] = 84
    /\ iso[14] = 58 /\ iso[17] = 58 /\ iso[20] = 43 /\ iso[23] = 58
    /\ AllDigits(Slice(iso, 20, 22)) /\ AllDigits(Slice(iso, 23, 25))
    /\ DecValue(0, Slice(iso, 20, 22)) <= 23
    /\ DecValue(0, Slice(iso, 23, 25)) <= 59
    /\ AllDigits(Slice(iso, 0, 4)) /\ AllDigits(Slice(iso, 5, 7))
    /\ AllDigits(Slice(iso, 8, 10)) /\ AllDigits(Slice(iso, 11, 13))
    /\ AllDigits(Slice(iso, 14, 16)) /\ AllDigits(Slice(iso, 17, 19))
    /\ LET y  == DecValue(0, Slice(iso, 0, 4))
           mo == DecValue(0, Slice(iso, 5, 7))
           d  == DecValue(0, Slice(iso, 8, 10))
       IN  /\ y >= 1 /\ mo >= 1 /\ mo <= 12
           /\ d >= 1 /\ d <= DaysInMonth(y, mo)
    /\ DecValue(0, Slice(iso, 11, 13)) <= 23
    /\ DecValue(0, Slice(iso, 14, 16)) <= 59
    /\ DecValue(0, Slice(iso, 17, 19)) <= 59

\* dateutil_parser.parse(iso) and the subtraction of line 109: the ways they
\* can end.  A well-formed text is read as the offset-aware time it spells.
\* dateutil is a library and reads many other texts too (a blank for a digit
\* as in "T 9:52:35", a letter after the seconds as in "19:52:3S"); which of
\* them it reads is not decided by the repository's code, so each of its
\* results is possible: a time with an offset, a ValueError (ParserError),
\* an OverflowError (a number too large for the date it is read as), or a
\* time without offset, whose subtraction from an aware time is a TypeError.
dateutil_parse(iso) ==
    IF IsoWellFormed(iso) THEN {"none"}
    ELSE {"none", "ValueError", "OverflowError", "TypeError"}

\* calculate_timestamp_drift(ts_type, iso_8601_timestamp): the exceptions it
\* can raise ("none": it returns); the drift it returns is dropped by its
\* only caller
calculate_timestamp_drift(iso) == dateutil_parse(iso)

---------------------------------------------------------------------------
(* DbInflux (influx.py) *)

\* the keys a record can have that contain "timestamp" / "gas"
TimestampKeys == {"timestamp", "gas_timestamp", "local_timestamp"}
GasKeys == {"total_gas_consumption", "gas_timestamp"}

\* data.get(key, "")
DictGetOrEmpty(data, key) ==
    IF key \in DOMAIN data THEN data[key] ELSE [t |-> "str", v |-> <<>>]

\* the "fields" of the electricity point (lines 87-91)
ElectricityFields(data) ==
    [k \in { x \in DOMAIN data : x \notin TimestampKeys /\ x \notin GasKeys } |-> data[k]]

\* the "fields" of the gas point (lines 101-105)
GasFields(data) ==
    [k \in { x \in DOMAIN data : x \notin TimestampKeys /\ x \in GasKeys } |-> data[k]]

\* the three points, given the converted timestamps
CraftPoints(data, ts, gs) ==
    <<[measurement |-> "electricity", time |-> ts.iso, fields |-> ElectricityFields(data)],
      [measurement |-> "gas", time |-> gs.iso, fields |-> GasFields(data)],
      [measurement |-> "load", time |-> ts.iso,
       fields |-> [k \in {"load_on"} |-> DictGet(data, "load_status")]]>>

\* craft_json given the two conversions, in the order they are made
CraftWith(data, ts, gs) ==
    IF ts.exc # "none" THEN [exc |-> ts.exc, points |-> <<>>]
    ELSE IF gs.exc # "none" THEN [exc |-> gs.exc, points |-> <<>>]
    ELSE [exc |-> "none", points |-> CraftPoints(data, ts, gs)]

\* DbInflux.craft_json(data): [exc, points]
craft_json(data) ==
    CraftWith(data,
              convert_timestamp(DictGetOrEmpty(data, "timestamp")),
              convert_timestamp(DictGetOrEmpty(data, "gas_timestamp")))

\* lines 56-58: points_list over entries[k..]
RECURSIVE PointsList(_, _, _)
PointsList(acc, entries, k) ==
    IF k > Len(entries) \/ acc.exc # "none" THEN acc
    ELSE PointsList([exc |-> craft_json(entries[k]).exc,
                     points |-> acc.points \o craft_json(entries[k]).points],
                    entries, k + 1)

\* what self.db.write_points (line 60) does with the list: the client is a
\* library that talks to a server, so it returns or raises as the server and
\* the network decide
WritePointsOutcomes ==
    {"none", "InfluxDBClientError", "InfluxDBServerError", "ConnectionError"}

\* DbInflux.write(data) for a list of records, write_points ending as wp:
\* [exc, points], points being the list that reached the database.  A
\* craft_json that raises leaves write before line 60, so nothing is written,
\* whatever the earlier entries gave.
db_write(entries, wp) ==
    IF PointsList([exc |-> "none", points |-> <<>>], entries, 1).exc # "none"
    THEN [exc |-> PointsList([exc |-> "none", points |-> <<>>], entries, 1).exc,
          points |-> <<>>]
    ELSE IF wp # "none" THEN [exc |-> wp, points |-> <<>>]
    ELSE PointsList([exc |-> "none", points |-> <<>>], entries, 1)

---------------------------------------------------------------------------
(* The telegram markers *)

\* START_OF_TELEGRAM.search(line): ^\/FLU\d{1}\\
START_OF_TELEGRAM(line) ==
    /\ Len(line) >= 6
    /\ SubSeq(line, 1, 4) = <<47, 70, 76, 85>>
    /\ IsDigit(line[5])
    /\ line[6] = 92

\* END_OF_TELEGRAM.search(line): ^![A-Z0-9]{4}
END_OF_TELEGRAM(line) ==
    /\ Len(line) >= 5
    /\ line[1] = 33
    /\ \A i \in 2..5 : IsDigit(line[i]) \/ IsUpper(line[i])

\* line.decode("ascii") succeeds
DecodesAscii(line) == \A i \in 1..Len(line) : line[i] < 128

---------------------------------------------------------------------------
(* The lines the byte source delivers in this model. *)

HexChar(d, upper) == IF d < 10 THEN 48 + d ELSE IF upper THEN 55 + d ELSE 87 + d

\* the checksum as the meter writes it, hex(crc)[2:].upper().zfill(4)
\* (tests/test_digimeter.py msg_stream), or the same in lower case
Hex4(n, upper) ==
    << HexChar((n \div 4096) % 16, upper), HexChar((n \div 256) % 16, upper),
       HexChar((n \div 16) % 16, upper), HexChar(n % 16, upper) >>

CRLF == <<13, 10>>

\* "!" followed by the checksum of content \o "!"
ChecksumLine(content, upper) ==
    <<33>> \o Hex4(Crc16Lha(content \o <<33>>), upper) \o CRLF

\* /FLU5\
LineStart == <<47, 70, 76, 85, 53, 92>> \o CRLF
\* 0-0:1.0.0(211024195235W)
LineTimestamp ==
    <<48, 45, 48, 58, 49, 46, 48, 46, 48, 40, 50, 49, 49, 48, 50, 52, 49, 57,
      53, 50, 51, 53, 87, 41>> \o CRLF
\* 0-0:1.0.0(211024195235X): a timestamp whose last letter is neither S nor W
LineBadTimestamp ==
    <<48, 45, 48, 58, 49, 46, 48, 46, 48, 40, 50, 49, 49, 48, 50, 52, 49, 57,
      53, 50, 51, 53, 88, 41>> \o CRLF
\* 0-0:1.0.0(211024 95235W): a timestamp with a blank for the first digit
\* of the hour
LineBlankHourTimestamp ==
    <<48, 45, 48, 58, 49, 46, 48, 46, 48, 40, 50, 49, 49, 48, 50, 52, 32, 57,
      53, 50, 51, 53, 87, 41>> \o CRLF
\* 1-0:32.7.0(23.5*V): a voltage whose span line[11:16] is "23.5*"
LineShortVoltage ==
    <<49, 45, 48, 58, 51, 50, 46, 55, 46, 48, 40, 50, 51, 46, 53, 42, 86, 41>>
    \o CRLF
\* a line with a byte that is not ASCII
LineUndecodable == <<255>> \o CRLF
\* !ZZZZ: an end marker whose checksum is not hexadecimal
LineNonHexEnd == <<33, 90, 90, 90, 90>> \o CRLF
\* !0000: an end marker with a hexadecimal checksum
LineZeroEnd == <<33, 48, 48, 48, 48>> \o CRLF

\* what serial_port.readline() may return next: a line, given the bytes
\* captured so far (the meter closes a telegram with its checksum)
SerialLines(captured) ==
    { LineStart, LineTimestamp, LineBadTimestamp, LineBlankHourTimestamp,
      LineShortVoltage,
      LineUndecodable,
      LineNonHexEnd, LineZeroEnd,
      ChecksumLine(captured, TRUE), ChecksumLine(captured, FALSE) }

\* the lines of a replay file (text mode: \n line ends); !AAAA is the end
\* marker of tests/testdata/meter_stream.txt
FakeLines ==
    { SubSeq(LineStart, 1, 6) \o <<10>>,
      SubSeq(LineTimestamp, 1, 24) \o <<10>>,
      SubSeq(LineShortVoltage, 1, 18) \o <<10>>,
      <<33, 65, 65, 65, 65, 10>> }

---------------------------------------------------------------------------
(* read_serial: one iteration of the while loop (digimeter.py 125-181) *)

\* lines 130-136: the buffer and the capture flag after the line is seen
Capture(buf, detected, line) ==
    IF START_OF_TELEGRAM(line) THEN [telegram |-> line, detected |-> TRUE]
    ELSE IF detected THEN [telegram |-> buf \o line, detected |-> TRUE]
    ELSE [telegram |-> buf, detected |-> FALSE]

\* lines 149-152 on the converted timestamp ct: the exceptions that can be
\* raised
Drift(ct) == IF ct.exc # "none" THEN {ct.exc} ELSE calculate_timestamp_drift(ct.iso)

\* lines 148-154 on the parsed record p: the exception that ends the try
\* block (caught at line 164) and whether msg_q.put ran
Deliver(p, exc) ==
    [crc |-> TRUE, exc |-> exc, put |-> exc = "none", rec |-> p.msg]

\* the ways lines 148-154 can end on the parsed record p
Parsed(p) ==
    IF p.exc # "none" THEN {Deliver(p, p.exc)}
    ELSE { Deliver(p, x) : x \in Drift(convert_timestamp(DictGet(p.msg, "timestamp"))) }

\* the ways lines 146-154 can end on the frame handed to check_msg
Publish(frame, now) ==
    IF check_msg(frame).exc # "none"
    THEN {[crc |-> FALSE, exc |-> check_msg(frame).exc, put |-> FALSE, rec |-> <<>>]}
    ELSE IF check_msg(frame).ret THEN Parsed(parse(frame, now))
    ELSE {[crc |-> FALSE, exc |-> "none", put |-> FALSE, rec |-> <<>>]}

\* how the loop sees what readline() delivered
LineKind(line) ==
    IF ~DecodesAscii(line) THEN "undecodable"
    ELSE IF START_OF_TELEGRAM(line) THEN "start"
    ELSE IF END_OF_TELEGRAM(line) THEN "end"
    ELSE "other"

---------------------------------------------------------------------------
(* Observation of the run: what the last iteration did (last) and what the  *)
(* input looked like so far (mon).  Neither is read by the program.         *)

NoStep ==
    [src |-> "none", kind |-> "none", capturing |-> FALSE, emitted |-> FALSE,
     candidate |-> <<>>, crc |-> "none", exc |-> "none", put |-> 0,
     expect |-> <<>>, runStarts |-> 0, runCands |-> 0, afterReject |-> FALSE]

MonInit ==
    [shape |-> "pre", npre |-> 0, nbody |-> 0, open |-> FALSE, since |-> <<>>,
     runStarts |-> 0, runCands |-> 0, starts |-> 0, cands |-> 0, puts |-> 0,
     hasPartial |-> FALSE, partial |-> <<>>, rejected |-> FALSE]

\* the frame's checksum text is not a hexadecimal number, or it has no "!"
NonHexTail(frame) ==
    \/ FindBang(frame) = 0
    \/ ~IntBase16(SubSeq(frame, FindBang(frame) + 1, Len(frame))).ok

\* the input monitor after a line of the given kind; emitted/verdict/put say
\* what the iteration did with it
MonNext(m, kind, line, emitted, candidate, verdict, put) ==
    LET isErr == kind \in {"SerialException", "undecodable"}
    IN  [shape |->
            IF m.shape = "pre" /\ kind = "other" THEN "pre"
            ELSE IF m.shape = "pre" /\ kind = "start" THEN "cap"
            ELSE IF m.shape = "cap" /\ kind = "other" THEN "cap"
            ELSE IF m.shape = "cap" /\ kind = "end" THEN "done"
            ELSE "off",
         npre  |-> IF m.shape = "pre" /\ kind = "other" THEN m.npre + 1 ELSE m.npre,
         nbody |-> IF m.shape = "cap" /\ kind = "other" THEN m.nbody + 1 ELSE m.nbody,
         open  |-> IF kind = "start" THEN TRUE
                   ELSE IF kind = "other" THEN m.open ELSE FALSE,
         since |-> IF kind = "start" THEN line
                   ELSE IF kind = "other" /\ m.open THEN m.since \o line
                   ELSE <<>>,
         runStarts |-> IF kind = "start" THEN m.runStarts + 1
                       ELSE IF kind = "other" THEN m.runStarts ELSE 0,
         runCands |-> IF kind = "start" /\ m.runStarts = 0 THEN 0
                      ELSE IF emitted THEN m.runCands + 1 ELSE m.runCands,
         starts |-> IF kind = "start" THEN m.starts + 1 ELSE m.starts,
         cands  |-> IF emitted THEN m.cands + 1 ELSE m.cands,
         puts   |-> IF put THEN m.puts + 1 ELSE m.puts,
         hasPartial |-> m.hasPartial \/ (isErr /\ m.open),
         partial |-> IF isErr /\ m.open THEN m.since ELSE m.partial,
         rejected |-> m.rejected \/ (emitted /\ ~verdict /\ NonHexTail(candidate))]

---------------------------------------------------------------------------
(* Actions of the ingest worker *)

\* neither read_serial nor fake_serial is running in the process: none has
\* been called, or an exception has ended the call
NoCallRunning == source = "none" \/ worker_exc # "none"

\* the locals of a call that has just begun, on the queue handed to it
CallBegins ==
    /\ telegram' = <<>>
    /\ start_of_telegram_detected' = FALSE
    /\ telegram_count' = 0
    /\ msg_q' = <<>>
    /\ eof' = FALSE
    /\ last' = NoStep
    /\ mon' = MonInit
    /\ UNCHANGED reads

\* read_serial(...) up to its read loop (digimeter.py 109-124).  `global log`
\* binds nothing, so the log.debug of line 117 raises NameError unless an
\* earlier call of fake_serial in the same process has bound log;
\* serial.Serial (line 121) raises SerialException when the port cannot be
\* opened.  Neither is caught: the call is over
read_serial_start(opened) ==
    /\ NoCallRunning
    /\ source' = "serial"
    /\ worker_exc' = IF ~log.digimeter THEN "NameError"
                     ELSE IF opened THEN "none" ELSE "SerialException"
    /\ CallBegins
    /\ UNCHANGED <<procVars, crcVars, fnVars, loadVars, unitVars, csvVars, readerVars>>

\* fake_serial(...) up to its read loop (digimeter.py 191-197): log is bound
\* (line 192), then the replay file is opened; open() raises
\* FileNotFoundError when there is no such file, and the call is over
fake_serial_start(found) ==
    /\ NoCallRunning
    /\ log' = [log EXCEPT !.digimeter = TRUE]
    /\ source' = "fake"
    /\ worker_exc' = IF found THEN "none" ELSE "FileNotFoundError"
    /\ CallBegins
    /\ UNCHANGED <<crcVars, fnVars, loadVars, unitVars, csvVars, readerVars>>

\* serial_port.readline() raises SerialException (lines 156-158)
read_serial_error ==
    /\ source = "serial"
    /\ worker_exc = "none"
    /\ reads < MaxReads
    /\ start_of_telegram_detected' = FALSE
    /\ reads' = reads + 1
    /\ last' = [NoStep EXCEPT !.src = "serial", !.kind = "SerialException",
                              !.capturing = start_of_telegram_detected,
                              !.exc = "SerialException",
                              !.runStarts = mon.runStarts]
    /\ mon' = MonNext(mon, "SerialException", <<>>, FALSE, <<>>, FALSE, FALSE)
    /\ UNCHANGED <<source, telegram, telegram_count, msg_q, eof, worker_exc>>
    /\ UNCHANGED <<procVars, crcVars, fnVars, loadVars, unitVars, csvVars, readerVars>>

\* readline() returns a line that line.decode("ascii") rejects (160-162)
read_serial_undecodable(line) ==
    /\ source = "serial"
    /\ worker_exc = "none"
    /\ reads < MaxReads
    /\ ~DecodesAscii(line)
    /\ start_of_telegram_detected' = FALSE
    /\ reads' = reads + 1
    /\ last' = [NoStep EXCEPT !.src = "serial", !.kind = "undecodable",
                              !.capturing = start_of_telegram_detected,
                              !.exc = "UnicodeDecodeError",
                              !.runStarts = mon.runStarts]
    /\ mon' = MonNext(mon, "undecodable", line, FALSE, <<>>, FALSE, FALSE)
    /\ UNCHANGED <<source, telegram, telegram_count, msg_q, eof, worker_exc>>
    /\ UNCHANGED <<procVars, crcVars, fnVars, loadVars, unitVars, csvVars, readerVars>>

\* readline() returns a line that is not an end marker (130-136)
read_serial_line(line) ==
    /\ source = "serial"
    /\ worker_exc = "none"
    /\ reads < MaxReads
    /\ DecodesAscii(line)
    /\ ~END_OF_TELEGRAM(line)
    /\ telegram' = Capture(telegram, start_of_telegram_detected, line).telegram
    /\ start_of_telegram_detected' =
           Capture(telegram, start_of_telegram_detected, line).detected
    /\ reads' = reads + 1
    /\ last' = [NoStep EXCEPT !.src = "serial", !.kind = LineKind(line),
                              !.capturing = start_of_telegram_detected,
                              !.runStarts = mon.runStarts]
    /\ mon' = MonNext(mon, LineKind(line), line, FALSE, <<>>, FALSE, FALSE)
    /\ UNCHANGED <<source, telegram_count, msg_q, eof, worker_exc>>
    /\ UNCHANGED <<procVars, crcVars, fnVars, loadVars, unitVars, csvVars, readerVars>>

\* the end-marker iteration, given the buffer c after the line was appended
\* and the outcome r of lines 146-154
EndOfTelegram(line, c, r) ==
    /\ telegram' = c.telegram
    /\ start_of_telegram_detected' = FALSE
    /\ telegram_count' = telegram_count + 1
    /\ msg_q' = IF r.put THEN Append(msg_q, r.rec) ELSE msg_q
    /\ last' = [src |-> "serial", kind |-> "end",
                capturing |-> start_of_telegram_detected,
                emitted |-> TRUE, candidate |-> c.telegram,
                crc |-> IF r.crc THEN "true" ELSE "false",
                exc |-> r.exc, put |-> IF r.put THEN 1 ELSE 0,
                expect |-> IF mon.open THEN mon.since \o line ELSE <<>>,
                runStarts |-> mon.runStarts, runCands |-> mon.runCands + 1,
                afterReject |-> mon.rejected]
    /\ mon' = MonNext(mon, "end", line, TRUE, c.telegram, r.crc, r.put)

\* readline() returns an end marker (130-154, 164-166)
read_serial_end(line) ==
    /\ source = "serial"
    /\ worker_exc = "none"
    /\ reads < MaxReads
    /\ DecodesAscii(line)
    /\ END_OF_TELEGRAM(line)
    /\ \E r \in Publish(Capture(telegram, start_of_telegram_detected, line).telegram,
                         reads) :
          EndOfTelegram(line, Capture(telegram, start_of_telegram_detected, line), r)
    /\ reads' = reads + 1
    /\ UNCHANGED <<source, eof, worker_exc>>
    /\ UNCHANGED <<procVars, crcVars, fnVars, loadVars, unitVars, csvVars, readerVars>>

\* lines 206-208 of fake_serial on the buffer buf, p being parse(buf).  The
\* try block catches StopIteration only: an exception of parse leaves
\* fake_serial before msg_q.put
FakePut(line, buf, p) ==
    /\ telegram' = buf
    /\ msg_q' = IF END_OF_TELEGRAM(line) /\ p.exc = "none"
                THEN Append(msg_q, p.msg) ELSE msg_q
    /\ last' = [NoStep EXCEPT !.src = "fake", !.kind = LineKind(line),
                              !.candidate = buf,
                              !.exc = IF END_OF_TELEGRAM(line) THEN p.exc
                                      ELSE "none",
                              !.put = IF END_OF_TELEGRAM(line) /\ p.exc = "none"
                                      THEN 1 ELSE 0]

\* lines 201-204 of fake_serial
FakeCapture(buf, line) == IF START_OF_TELEGRAM(line) THEN line ELSE buf \o line

\* an exception has left fake_serial: the worker process is over
FakeEnded == worker_exc # "none"

\* fake_serial: one iteration of the read loop on a line of the replay file
\* (digimeter.py 197-210)
fake_serial_line(line) ==
    /\ source = "fake"
    /\ reads < MaxReads
    /\ ~eof
    /\ ~FakeEnded
    /\ FakePut(line, FakeCapture(telegram, line),
               parse(FakeCapture(telegram, line), reads))
    /\ worker_exc' = IF END_OF_TELEGRAM(line)
                     THEN parse(FakeCapture(telegram, line), reads).exc
                     ELSE "none"
    /\ reads' = reads + 1
    /\ UNCHANGED <<source, start_of_telegram_detected, telegram_count, eof, mon>>
    /\ UNCHANGED <<procVars, crcVars, fnVars, loadVars, unitVars, csvVars, readerVars>>

\* fake_serial at the end of the file: fh.readline() returns "" and raises
\* nothing, so the loop goes on (199-206)
fake_serial_eof ==
    /\ source = "fake"
    /\ reads < MaxReads
    /\ ~FakeEnded
    /\ eof' = TRUE
    /\ reads' = reads + 1
    /\ last' = [NoStep EXCEPT !.src = "fake", !.kind = "eof"]
    /\ UNCHANGED <<source, telegram, start_of_telegram_detected, telegram_count,
                   msg_q, worker_exc, mon>>
    /\ UNCHANGED <<procVars, crcVars, fnVars, loadVars, unitVars, csvVars, readerVars>>

\* check_msg has not been called
NoVerdict == [exc |-> "none", ret |-> FALSE]

CrcIdle ==
    /\ crc_stage = "idle"
    /\ crc_content = <<>>
    /\ crc_frame = <<>>
    /\ crc_result = NoVerdict

---------------------------------------------------------------------------
(* The load manager (aux.py): Load, Timer and LoadManager.process.  Time   *)
(* is counted in ticks; time() is a float and both Timer.elapsed and       *)
(* Load.state_time truncate a difference of two readings to whole seconds. *)

\* ticks in a second
TicksPerSecond == 2
\* the clock is explored up to this many ticks
MaxTime == 8

\* None as the value of Load.state_start_time and Timer._start_time
NoTime == -1

\* LOAD_PIN load: max_power = 230 * 10 (line 169)
MaxPower == 230 * 10

Abs(x) == IF x < 0 THEN 0 - x ELSE x

\* int(time() - start) for start set at or before time
SecondsSince(start, t) == (t - start) \div TicksPerSecond

\* Load.is_on
is_on(value) == value = 1

\* Load.state_time
state_time(start, t) == IF start = NoTime THEN -1 ELSE SecondsSince(start, t)

\* Timer.is_started
is_started(start) == start # NoTime

\* Timer.elapsed
elapsed(start, t) == IF start = NoTime THEN -1 ELSE SecondsSince(start, t)

\* Timer.start(timer_type) at time t, for a type of TIMER_TYPES
TimerStart(ty, t) == [start |-> t, type |-> ty]

\* Timer.stop()
TimerStop == [start |-> NoTime, type |-> "None"]

\* Timer.restart() at time t: the type is kept
TimerRestart(tm, t) == TimerStart(tm.type, t)

\* TIMER_TYPES
TIMER_TYPES == {"consume", "inject"}

\* Timer.start(timer_type) for any argument: [exc, timer]
TimerStartCall(tm, ty, t) ==
    IF ty \notin TIMER_TYPES THEN [exc |-> "ValueError", timer |-> tm]
    ELSE [exc |-> "none", timer |-> TimerStart(ty, t)]

\* Timer.restart(timer_type), "None" for no argument: [exc, timer].  The local
\* t is assigned only when no type is given; the timer is stopped, if it was
\* started, before start(t or self.timer_type) is evaluated
RestartCall(tm, ty, t) ==
    IF ty # "None"
    THEN [exc |-> "UnboundLocalError",
          timer |-> IF is_started(tm.start) THEN TimerStop ELSE tm]
    ELSE TimerStartCall(IF is_started(tm.start) THEN TimerStop ELSE tm, tm.type, t)

\* the values configured for the manager under test
LoadConfigs ==
    [max_consume : {500}, max_inject : {1500, 2500},
     consume_time : {0, 1}, inject_time : {0, 1}]

\* record values are in kW and are drawn in halves of a kW (exact as floats):
\* a record holds the number of halves
HalfKw == {0, 1, 3, 4, 10}

\* data.get(key, 0) * 1000 for a value of h halves of a kW
Watts(h) == (h * 1000) \div 2

\* the records handed to process(): both keys, or none
Readings ==
    { [k \in {"actual_total_injection", "actual_total_consumption"} |->
          IF k = "actual_total_injection" THEN i ELSE c] :
          i \in HalfKw, c \in {0, 1} }
    \cup { [k \in {} |-> 0] }

\* data.get(key, 0)
DataGet(data, key) == IF key \in DOMAIN data THEN data[key] ELSE 0

\* In the operators of the manager below, injected and consumed are twice
\* the readings in W (see Milli for the float readings that asks for it).

\* the chain without its third branch: a low reading leaves the timer running
TimerBranchWithoutRestart(cfg, value, tm, injected, consumed, t) ==
    IF injected >= 2 * cfg.max_inject /\ ~is_on(value) /\ ~is_started(tm.start)
    THEN TimerStart("inject", t)
    ELSE IF consumed >= 2 * cfg.max_consume /\ is_on(value) /\ ~is_started(tm.start)
    THEN TimerStart("consume", t)
    ELSE tm

\* the chain with an inject timer started whether the load is off or on
TimerBranchIgnoringLoad(cfg, value, tm, injected, consumed, t) ==
    IF injected >= 2 * cfg.max_inject /\ ~is_started(tm.start)
    THEN TimerStart("inject", t)
    ELSE IF consumed >= 2 * cfg.max_consume /\ is_on(value) /\ ~is_started(tm.start)
    THEN TimerStart("consume", t)
    ELSE IF \/ injected < 2 * cfg.max_inject /\ ~is_on(value) /\ is_started(tm.start)
            \/ consumed < 2 * cfg.max_consume /\ is_on(value) /\ is_started(tm.start)
    THEN TimerRestart(tm, t)
    ELSE tm

\* lines 184-214: the timer after the if / elif chain
TimerBranch(cfg, value, tm, injected, consumed, t) ==
    IF injected >= 2 * cfg.max_inject /\ ~is_on(value) /\ ~is_started(tm.start)
    THEN TimerStart("inject", t)
    ELSE IF consumed >= 2 * cfg.max_consume /\ is_on(value) /\ ~is_started(tm.start)
    THEN TimerStart("consume", t)
    ELSE IF \/ injected < 2 * cfg.max_inject /\ ~is_on(value) /\ is_started(tm.start)
            \/ consumed < 2 * cfg.max_consume /\ is_on(value) /\ is_started(tm.start)
    THEN TimerRestart(tm, t)
    ELSE tm

\* switching on without stopping the timer
SwitchOnKeepingTimer(cfg, st, injected, t) ==
    IF /\ st.timer.type = "inject"
       /\ elapsed(st.timer.start, t) >= cfg.inject_time
       /\ Abs(injected - (2 * MaxPower)) < 2 * cfg.max_consume
    THEN [value |-> 1, since |-> t, timer |-> st.timer]
    ELSE st

\* lines 222-229 on st = [value, since, timer]
SwitchOn(cfg, st, injected, t) ==
    IF /\ st.timer.type = "inject"
       /\ elapsed(st.timer.start, t) >= cfg.inject_time
       /\ Abs(injected - (2 * MaxPower)) < 2 * cfg.max_consume
    THEN [value |-> 1, since |-> t, timer |-> TimerStop]
    ELSE st

\* switching off as soon as a consume timer exists, however long it has run
SwitchOffAtOnce(cfg, st, t) ==
    IF st.timer.type = "consume"
    THEN [value |-> 0, since |-> t, timer |-> TimerStop]
    ELSE st

\* switching off only when the timer has run for more than consume_time
SwitchOffStrictlyLater(cfg, st, t) ==
    IF st.timer.type = "consume" /\ elapsed(st.timer.start, t) > cfg.consume_time
    THEN [value |-> 0, since |-> t, timer |-> TimerStop]
    ELSE st

\* lines 232-240 on st = [value, since, timer]
SwitchOff(cfg, st, t) ==
    IF st.timer.type = "consume" /\ elapsed(st.timer.start, t) >= cfg.consume_time
    THEN [value |-> 0, since |-> t, timer |-> TimerStop]
    ELSE st

\* LoadManager.process(data) at time t, on st = [value, since, timer]
Process(cfg, st, injected, consumed, t) ==
    SwitchOff(cfg,
              SwitchOn(cfg,
                       [value |-> st.value, since |-> st.since,
                        timer |-> TimerBranch(cfg, st.value, st.timer,
                                              injected, consumed, t)],
                       injected, t),
              t)

NoCall ==
    [called |-> FALSE, injected |-> 0, consumed |-> 0, was_on |-> FALSE,
     state_time |-> -1, started |-> FALSE, type |-> "None", elapsed |-> -1,
     branch |-> TimerStop, since |-> NoTime, at |-> 0]

\* no load manager is configured
LoadIdle ==
    /\ lm = [max_consume |-> 0, max_inject |-> 0, consume_time |-> 0, inject_time |-> 0]
    /\ load_value = 0
    /\ state_start_time = NoTime
    /\ timer_start_time = NoTime
    /\ timer_type = "None"
    /\ time = 0
    /\ lm_last = NoCall

\* no Load method has been called directly
NoUnitCall ==
    [op |-> "none", was_on |-> FALSE, since |-> NoTime, at |-> 0,
     arg |-> "None", exc |-> "none", type |-> "None", started |-> FALSE]
UnitIdle == unit_last = NoUnitCall

---------------------------------------------------------------------------
(* CSVWriter (csv_writer.py).  The writer and the files it makes are one   *)
(* record w: batch, lines_written, create_time, filehandler, filename,     *)
(* rows, files, and the clock now (both datetime.now() and monotonic()).   *)

\* FIELDNAMES = [f[1] for f in FIELDS]
FIELDNAMES == { FIELDS[j].key : j \in 1..Len(FIELDS) }

\* a dict is true unless it is empty
Truthy(tg) == DOMAIN tg # {}

\* _generate_filename: the first second, from now on, that no final file is
\* named after; each attempt that finds the name taken sleeps a second
RECURSIVE FreeSecond(_, _)
FreeSecond(files, now) ==
    IF \E i \in 1..Len(files) : files[i].name = now \div TicksPerSecond
    THEN FreeSecond(files, now + TicksPerSecond)
    ELSE now

\* line 56: a final file is named after the second the clock shows
NameTaken(w) ==
    \E i \in 1..Len(w.files) : w.files[i].name = w.now \div TicksPerSecond

\* open() gets to sleep(1) of line 59
OpenSleeps(w) == w.filehandler # "open" /\ NameTaken(w)

\* open(), the new file being created at time t = FreeSecond(w.files, w.now)
OpenAt(w, t) ==
    [w EXCEPT !.filehandler = "open", !.filename = t \div TicksPerSecond,
              !.rows = <<>>, !.lines_written = 0, !.create_time = t, !.now = t]

\* open() to its end, the seconds slept in _generate_filename included
CsvOpen(w) ==
    IF w.filehandler = "open" THEN w ELSE OpenAt(w, FreeSecond(w.files, w.now))

\* close() from line 92 on: the file is closed, then removed or renamed
CloseFile(w) ==
    IF w.lines_written = 0
    THEN [w EXCEPT !.filehandler = "closed", !.rows = <<>>]
    ELSE [w EXCEPT !.filehandler = "closed", !.rows = <<>>,
                   !.files = Append(w.files, [name |-> w.filename, rows |-> w.rows])]

\* a rotation test that lets one row too many into the file
RotationDueOneLate(cfg, w) ==
    \/ (cfg.max_age * TicksPerSecond) + w.create_time <= w.now
    \/ w.lines_written > cfg.max_lines

\* lines 129-132: the file is due for rotation
RotationDue(cfg, w) ==
    \/ (cfg.max_age * TicksPerSecond) + w.create_time <= w.now
    \/ w.lines_written = cfg.max_lines

\* lines 125-134: the loop over the batch; DictWriter.writerow raises
\* ValueError for a dict with a key that is not in FIELDNAMES
RECURSIVE WriteLoop(_, _)
WriteLoop(cfg, w) ==
    IF w.batch = <<>> THEN w
    ELSE IF ~(DOMAIN w.batch[Len(w.batch)] \subseteq FIELDNAMES)
    THEN [w EXCEPT !.batch = SubSeq(w.batch, 1, Len(w.batch) - 1),
                   !.exc = "ValueError"]
    ELSE IF RotationDue(cfg, [w EXCEPT !.lines_written = w.lines_written + 1])
    THEN CloseFile([w EXCEPT !.batch = SubSeq(w.batch, 1, Len(w.batch) - 1),
                             !.rows = Append(w.rows, w.batch[Len(w.batch)]),
                             !.lines_written = w.lines_written + 1])
    ELSE WriteLoop(cfg, [w EXCEPT !.batch = SubSeq(w.batch, 1, Len(w.batch) - 1),
                                  !.rows = Append(w.rows, w.batch[Len(w.batch)]),
                                  !.lines_written = w.lines_written + 1])

\* write() gets to sleep(1): it is past the early return of line 121 and
\* open() sleeps
WriteSleeps(cfg, w, flush) ==
    /\ ~(Len(w.batch) < cfg.write_every /\ ~flush)
    /\ OpenSleeps(w)

\* lines 118-119
BatchAppend(w, tg) ==
    IF Truthy(tg) THEN [w EXCEPT !.batch = Append(w.batch, tg)] ELSE w

\* write() from line 121 on
WriteBatch(cfg, w, flush) ==
    IF Len(w.batch) < cfg.write_every /\ ~flush THEN w
    ELSE WriteLoop(cfg, CsvOpen(w))

\* CSVWriter.write(telegram, flush)
CsvWrite(cfg, w, tg, flush) ==
    WriteBatch(cfg, BatchAppend(w, tg), flush)

\* CSVWriter.close(flush)
CsvClose(cfg, w, flush) ==
    IF w.filehandler = "None" THEN [w EXCEPT !.exc = "AttributeError"]
    ELSE IF w.filehandler = "closed" THEN w
    ELSE IF flush /\ Len(w.batch) > 0 THEN WriteBatch(cfg, w, TRUE)
    ELSE CloseFile(w)

\* CSVWriter.__init__
NewWriter(now) ==
    [batch |-> <<>>, lines_written |-> 0, create_time |-> 0, filehandler |-> "None",
     filename |-> NoTime, rows |-> <<>>, files |-> <<>>, now |-> now, exc |-> "none"]

NoCsvCall == [op |-> "none", exc |-> "none", flush |-> FALSE, tg |-> <<>>]

\* no CSV writer is configured
CsvIdle ==
    /\ csv_cfg = [write_every |-> 0, max_lines |-> 0, max_age |-> 0]
    /\ batch = <<>>
    /\ lines_written = 0
    /\ create_time = 0
    /\ filehandler = "None"
    /\ filename = NoTime
    /\ csv_rows = <<>>
    /\ csv_files = <<>>
    /\ csv_in = <<>>
    /\ csv_last = NoCsvCall
    /\ csv_pc = "idle"

---------------------------------------------------------------------------
(* queue_reader (main.py) and what it calls *)

\* The operators of the manager take a power reading as twice its value in
\* W.  data.get(key, 0) * 1000 is a float for a float reading and need not be
\* a whole number: a product strictly between n and n + 1 is handed over as
\* 2n + 1, which compares with every whole number of W as the product does.

\* readings of this many W and more are all taken as this many W
HugeWatts == 1000000000

\* floor(log2(k)) for k >= 1
Log2[k \in Nat] == IF k < 2 THEN 0 ELSE 1 + Log2[k \div 2]

\* the least g with k * 2^g >= 1000, for k >= 1
ShiftsTo1000[k \in Nat] == IF k >= 1000 THEN 0 ELSE 1 + ShiftsTo1000[2 * k]

\* 2^n modulo 2000
Pow2Mod2000[n \in Nat] == IF n = 0 THEN 1 ELSE (2 * Pow2Mod2000[n - 1]) % 2000

\* floor(log2(k / 1000)) for k >= 1: the binade of the double next to k/1000
KwBinade[k \in Nat] == IF k >= 1000 THEN Log2[k \div 1000] ELSE 0 - ShiftsTo1000[k]

\* float(text) for a text that spells k/1000 is the double m * 2^-s next to
\* it, s = 52 - KwBinade[k]; k * 2^s = 1000 * m + r with r as small as can be
\* and m even when r is 500 or -500.  The double times 1000 is k - r * 2^-s.
KwRemainder[k \in Nat] ==
    LET t == ((k % 2000) * Pow2Mod2000[52 - KwBinade[k]]) % 2000
    IN  IF t % 1000 < 500 THEN t % 1000
        ELSE IF t % 1000 > 500 THEN (t % 1000) - 1000
        ELSE IF t < 1000 THEN 500 ELSE 0 - 500

\* half the distance from k to the next double, in units of 2^-s: below a
\* power of two the doubles are twice as dense
KwHalfUlp[k \in Nat, below \in BOOLEAN] ==
    IF Log2[k] - KwBinade[k] = 10
    THEN (IF below /\ k = 2 ^ Log2[k] THEN 256 ELSE 512)
    ELSE (IF below /\ k = 2 ^ Log2[k] THEN 128 ELSE 256)

\* k - r * 2^-s rounded to the nearest double, as twice its value: k itself
\* (a tie goes to k, whose mantissa is even), the double above or the double
\* below
KwRounded[k \in Nat, r \in Int] ==
    IF r < 0 /\ (0 - r) > KwHalfUlp[k, FALSE] THEN (2 * k) + 1
    ELSE IF r > 0 /\ r > KwHalfUlp[k, TRUE] THEN (2 * k) - 1
    ELSE 2 * k

\* float(text) * 1000 for a text that spells k/1000, 0 <= k < HugeWatts, as
\* twice its value
KwProduct[k \in Nat] == IF k = 0 THEN 0 ELSE KwRounded[k, KwRemainder[k]]

\* the digits of a float() digit part, underscores left out
DigitsOf[s \in Seq(Nat)] ==
    IF s # <<>> /\ IsDigit(Head(s)) THEN <<Head(s)>> \o DigitsOf[Tail(s)]
    ELSE IF Len(s) >= 2 /\ Head(s) = 95 /\ IsDigit(s[2]) THEN DigitsOf[Tail(s)]
    ELSE <<>>

StripLeadingZeros[s \in Seq(Nat)] ==
    IF s # <<>> /\ Head(s) = 48 THEN StripLeadingZeros[Tail(s)] ELSE s

StripTrailingZeros[s \in Seq(Nat)] ==
    IF s # <<>> /\ s[Len(s)] = 48
    THEN StripTrailingZeros[SubSeq(s, 1, Len(s) - 1)] ELSE s

\* the value of a run of digits, 9999 standing for all that is larger
ExponentValue[acc \in Nat, s \in Seq(Nat)] ==
    IF s = <<>> THEN acc
    ELSE ExponentValue[Min(9999, (10 * acc) + (Head(s) - 48)), Tail(s)]

\* the exponent of the float literal v: what follows the fraction
FloatExponent(v) ==
    LET r  == SkipDigitPart(Tail(SkipDigits(v)))
        e  == IF r = <<>> THEN <<>> ELSE Tail(r)
        eu == IF e # <<>> /\ Head(e) \in {43, 45} THEN Tail(e) ELSE e
    IN  IF e # <<>> /\ Head(e) = 45 THEN 0 - ExponentValue[0, DigitsOf[eu]]
        ELSE ExponentValue[0, DigitsOf[eu]]

\* the significant digits of the float literal v: the digits before and
\* after the point without the zeros at either end
FloatDigits(v) ==
    StripTrailingZeros[StripLeadingZeros[
        SubSeq(v, 1, Len(v) - Len(SkipDigits(v))) \o DigitsOf[Tail(SkipDigits(v))]]]

\* the number of digits that v * 1000 has before its point (0 or less: the
\* number of zeros after the point, negated): v is 0.d1d2... * 10^n for the
\* digits d1 d2 ... of FloatDigits, and v * 1000 has n + 3
WattDigits(v) ==
    Len(StripLeadingZeros[
            SubSeq(v, 1, Len(v) - Len(SkipDigits(v))) \o DigitsOf[Tail(SkipDigits(v))]])
    - Len(DigitsOf[Tail(SkipDigits(v))]) + FloatExponent(v) + 3

\* the first nine digits of ds as a number, zeros added where ds is shorter
Lead9(ds) == DecValue(0, SubSeq(ds \o <<48, 48, 48, 48, 48, 48, 48, 48, 48>>, 1, 9))

\* float() of a literal with the digits ds and n digits before the point is
\* 0.0: the value is at most 2^-1075 = 2.47032822...e-324, half the least
\* double above zero
Underflows(ds, n) == n < 0 - 323 \/ (n = 0 - 323 /\ Lead9(ds) <= 247032822)

\* float(v) * 1000, as the operators of the manager take it, for a float
\* literal v with the significant digits ds whose product has n digits before
\* its point.  A whole product below HugeWatts is rounded as KwProduct says;
\* a product that is no whole number has at most ten significant digits here
\* and is too far from the whole numbers around it to be rounded to one
\* (0.0 aside: float(v) is 0.0 when v underflows)
WattsOf[ds \in Seq(Nat), n \in Int] ==
    IF ds = <<>> THEN 0
    ELSE IF n > 9 THEN 2 * HugeWatts
    ELSE IF Len(ds) <= n
    THEN KwProduct[DecValue(0, ds) * (10 ^ (n - Len(ds)))]
    ELSE IF n <= 0
    THEN (IF Underflows(ds, n - 3) THEN 0 ELSE 1)
    ELSE (2 * DecValue(0, SubSeq(ds, 1, n))) + 1

\* float(v) * 1000 for the float literal v (aux.py 178-179)
Milli(v) == WattsOf[FloatDigits(v), WattDigits(v)]

\* data.get(key, 0) * 1000 as it fares in the comparisons of process(), w
\* being twice the product: an int times 1000 is exact, and a str times 1000
\* is a str, for which str >= int raises TypeError
ReadingWatts(data, key) ==
    IF key \notin DOMAIN data THEN [exc |-> "none", w |-> 0]
    ELSE IF data[key].t = "int"
    THEN [exc |-> "none",
          w |-> IF data[key].v >= HugeWatts \div 1000 THEN 2 * HugeWatts
                ELSE 2 * (data[key].v * 1000)]
    ELSE IF data[key].t = "float" THEN [exc |-> "none", w |-> Milli(data[key].v)]
    ELSE [exc |-> "TypeError", w |-> 0]

\* line 184 holds: the first branch is taken and actual_consumed is not read
FirstBranch(cfg, st, injected) ==
    injected >= 2 * cfg.max_inject /\ ~is_on(st.value) /\ ~is_started(st.timer.start)

\* process(data) given the two readings: [exc, st]
ProcessReadings(cfg, st, inj, con, t) ==
    IF inj.exc # "none" THEN [exc |-> inj.exc, st |-> st]
    ELSE IF con.exc # "none" /\ ~FirstBranch(cfg, st, inj.w)
    THEN [exc |-> con.exc, st |-> st]
    ELSE [exc |-> "none", st |-> Process(cfg, st, inj.w, con.w, t)]

\* LoadManager.process(data) on a record of the decoder: the two readings are
\* taken from the record once (lines 178-179), then compared
ProcessData(cfg, st, data, t) ==
    CHOOSE r \in { ProcessReadings(cfg, st, inj, con, t) :
                      inj \in {ReadingWatts(data, "actual_total_injection")},
                      con \in {ReadingWatts(data, "actual_total_consumption")} } : TRUE

\* await db.write(data, upload_interval) (main.py 155): DbInflux.write takes
\* one argument besides self (influx.py 49), so the call raises TypeError
\* before the body runs and nothing is written
db_write_awaited(data, upload_interval) == [exc |-> "TypeError", points |-> <<>>]

\* queue_reader has not been started
ReaderIdle ==
    /\ qr_cfg = [loads |-> FALSE, db |-> FALSE, csv |-> FALSE]
    /\ qr_pc = "none"
    /\ qr_data = <<>>
    /\ msg_count = 0
    /\ q_buffer = <<>>
    /\ qr_put = <<>>
    /\ qr_got = <<>>
    /\ qr_log = <<>>
    /\ qr_points = <<>>

\* no decoder function is being exercised
FnIdle ==
    /\ fn_call = "none"
    /\ fn_in = [kind |-> "none", t |-> "None", v |-> <<>>]
    /\ fn_out = [exc |-> "none"]

\* the process has imported the modules and called none of their functions:
\* no `log` is bound
LogUnbound == log = [digimeter |-> FALSE, main |-> FALSE]

\* no ingest worker is running
WorkerIdle ==
    /\ source = "none"
    /\ telegram = <<>>
    /\ start_of_telegram_detected = FALSE
    /\ telegram_count = 0
    /\ msg_q = <<>>
    /\ eof = FALSE
    /\ worker_exc = "none"
    /\ reads = 0
    /\ last = NoStep
    /\ mon = MonInit

\* a process that is about to call read_serial or fake_serial, as the two
\* processes main() creates are (main.py 256-281)
Init ==
    /\ LogUnbound
    /\ WorkerIdle
    /\ CrcIdle
    /\ FnIdle
    /\ LoadIdle
    /\ ReaderIdle
    /\ CsvIdle
    /\ UnitIdle

Next ==
    \/ \E opened \in BOOLEAN : read_serial_start(opened)
    \/ \E found \in BOOLEAN : fake_serial_start(found)
    \/ read_serial_error
    \/ \E line \in SerialLines(telegram) : read_serial_undecodable(line)
    \/ \E line \in SerialLines(telegram) : read_serial_line(line)
    \/ \E line \in SerialLines(telegram) : read_serial_end(line)
    \/ \E line \in FakeLines : fake_serial_line(line)
    \/ fake_serial_eof

Spec == Init /\ [][Next]_vars

---------------------------------------------------------------------------
(* check_msg on its own: a caller hands it a frame, either as drawn, or    *)
(* closed with its checksum the way the meter does, or closed and then     *)
(* damaged in one bit of the content.                                      *)

\* the bytes frame contents are drawn from: space ! 0 A
ContentBytes == {32, 33, 48, 65}

RECURSIVE SeqsUpTo(_, _)
SeqsUpTo(S, n) ==
    IF n = 0 THEN {<<>>}
    ELSE SeqsUpTo(S, n - 1)
         \cup { Append(q, b) : q \in {r \in SeqsUpTo(S, n - 1) : Len(r) = n - 1}, b \in S }

Contents == SeqsUpTo(ContentBytes, MaxContentLen)

EndsWithBang(content) == content # <<>> /\ content[Len(content)] = 33

\* content followed by its checksum, as tests/test_digimeter.py msg_stream
\* closes a telegram (lines 42-44)
Signed(content, body) == body \o Hex4(Crc16Lha(content), TRUE) \o CRLF

\* content with bit `bit` of byte i inverted
FlipBit(content, i, bit) ==
    [content EXCEPT ![i] = Xor8(content[i], 2 ^ bit)]

InitCrc ==
    /\ LogUnbound
    /\ WorkerIdle
    /\ crc_stage = "input"
    /\ crc_content \in Contents
    /\ crc_frame = <<>>
    /\ crc_result = NoVerdict
    /\ FnIdle
    /\ LoadIdle
    /\ ReaderIdle
    /\ CsvIdle
    /\ UnitIdle

\* check_msg(content)
check_raw ==
    /\ NoCallRunning
    /\ crc_stage = "input"
    /\ crc_frame' = crc_content
    /\ crc_result' = check_msg(crc_content)
    /\ crc_stage' = "raw"
    /\ UNCHANGED crc_content
    /\ UNCHANGED <<procVars, workerVars, fnVars, loadVars, unitVars, csvVars, readerVars>>

\* check_msg(content + checksum of content)
check_signed ==
    /\ NoCallRunning
    /\ crc_stage = "input"
    /\ EndsWithBang(crc_content)
    /\ crc_frame' = Signed(crc_content, crc_content)
    /\ crc_result' = check_msg(Signed(crc_content, crc_content))
    /\ crc_stage' = "signed"
    /\ UNCHANGED crc_content
    /\ UNCHANGED <<procVars, workerVars, fnVars, loadVars, unitVars, csvVars, readerVars>>

\* check_msg(content with one bit inverted + checksum of content)
check_flipped(i, bit) ==
    /\ NoCallRunning
    /\ crc_stage = "input"
    /\ EndsWithBang(crc_content)
    /\ crc_frame' = Signed(crc_content, FlipBit(crc_content, i, bit))
    /\ crc_result' = check_msg(Signed(crc_content, FlipBit(crc_content, i, bit)))
    /\ crc_stage' = "flipped"
    /\ UNCHANGED crc_content
    /\ UNCHANGED <<procVars, workerVars, fnVars, loadVars, unitVars, csvVars, readerVars>>

NextCrc ==
    \/ fake_serial_start(FALSE)
    \/ check_raw
    \/ check_signed
    \/ \E i \in 1..Len(crc_content), bit \in 0..7 : check_flipped(i, bit)

SpecCrc == InitCrc /\ [][NextCrc]_vars

---------------------------------------------------------------------------
(* The decoder functions on their own: parse, autoformat and               *)
(* convert_timestamp called once on an argument drawn from a pool.         *)

\* most lines of a frame handed to parse
MaxParseLines == 3
\* longest string handed to autoformat
MaxValueLen == 4

\* 0-1:24.2.3(211024195005S)(03775.342*m3)
LineGas ==
    <<48, 45, 49, 58, 50, 52, 46, 50, 46, 51, 40, 50, 49, 49, 48, 50, 52, 49,
      57, 53, 48, 48, 53, 83, 41, 40, 48, 51, 55, 55, 53, 46, 51, 52, 50, 42,
      109, 51, 41>> \o CRLF
\* 1-0:1.7.0(00.507*kW)
LineConsumption ==
    <<49, 45, 48, 58, 49, 46, 55, 46, 48, 40, 48, 48, 46, 53, 48, 55, 42, 107,
      87, 41>> \o CRLF
\* 0-0:96.14.0(0002)
LineTariff ==
    <<48, 45, 48, 58, 57, 54, 46, 49, 52, 46, 48, 40, 48, 48, 48, 50, 41>> \o CRLF
\* 0-0:96.1.4(50213): a code that FIELDS does not list
LineUnlisted ==
    <<48, 45, 48, 58, 57, 54, 46, 49, 46, 52, 40, 53, 48, 50, 49, 51, 41>> \o CRLF

ParseLinePool ==
    { LineStart, LineTimestamp, LineGas, LineConsumption, LineTariff,
      LineUnlisted, LineShortVoltage }

RECURSIVE Frames(_)
Frames(n) ==
    IF n = 0 THEN {<<>>}
    ELSE Frames(n - 1)
         \cup { f \o l : f \in Frames(n - 1), l \in ParseLinePool }

\* the characters strings handed to autoformat are made of: 1 2 . * space A
\* (parse never hands over a line break: the values are cut from lines)
ValueBytes == {49, 50, 46, 42, 32, 65}

\* date and time digits of the timestamps handed to convert_timestamp
DateDigits ==
    { <<50, 49, 49, 48, 50, 52>>,     \* 211024
      <<50, 49, 48, 49, 48, 49>>,     \* 210101
      <<57, 57, 48, 55, 49, 53>>,     \* 990715
      <<48, 48, 49, 50, 51, 49>> }    \* 001231
TimeDigits ==
    { <<49, 57, 53, 50, 51, 53>>,     \* 195235
      <<48, 48, 48, 48, 48, 48>>,     \* 000000
      <<50, 51, 53, 57, 53, 57>> }    \* 235959
\* the last character: S W X s
ZoneBytes == {83, 87, 88, 115}

\* the record the decoder makes of a frame it accepts
Decoded(frame) == ParseTelegram(frame, 0).msg

FnInputs ==
    { [kind |-> "frame", t |-> "str", v |-> f] : f \in Frames(MaxParseLines) }
    \cup { [kind |-> "value", t |-> "str", v |-> x] : x \in SeqsUpTo(ValueBytes, MaxValueLen) }
    \cup { [kind |-> "timestamp", t |-> "str", v |-> d \o h \o <<z>>] :
              d \in DateDigits, h \in TimeDigits, z \in ZoneBytes }
    \cup { [kind |-> "timestamp", t |-> "str", v |-> <<>>],
           [kind |-> "timestamp", t |-> "None", v |-> <<>>] }

InitFn ==
    /\ LogUnbound
    /\ WorkerIdle
    /\ CrcIdle
    /\ fn_call = "none"
    /\ fn_in \in FnInputs
    /\ fn_out = [exc |-> "none"]
    /\ LoadIdle
    /\ ReaderIdle
    /\ CsvIdle
    /\ UnitIdle

\* parse(frame)
call_parse ==
    /\ NoCallRunning
    /\ fn_call = "none"
    /\ fn_in.kind = "frame"
    /\ fn_call' = "parse"
    /\ fn_out' = parse(fn_in.v, 0)
    /\ UNCHANGED fn_in
    /\ UNCHANGED <<workerVars, procVars, crcVars, loadVars, unitVars, csvVars, readerVars>>

\* autoformat(value)
call_autoformat ==
    /\ fn_call = "none"
    /\ fn_in.kind = "value"
    /\ fn_call' = "autoformat"
    /\ fn_out' = autoformat(fn_in.v)
    /\ UNCHANGED fn_in
    /\ UNCHANGED <<workerVars, procVars, crcVars, loadVars, unitVars, csvVars, readerVars>>

\* convert_timestamp(timestamp)
call_convert_timestamp ==
    /\ fn_call = "none"
    /\ fn_in.kind = "timestamp"
    /\ fn_call' = "convert_timestamp"
    /\ fn_out' = convert_timestamp([t |-> fn_in.t, v |-> fn_in.v])
    /\ UNCHANGED fn_in
    /\ UNCHANGED <<workerVars, procVars, crcVars, loadVars, unitVars, csvVars, readerVars>>

\* DbInflux.craft_json(record) for the record decoded from a frame
call_craft_json ==
    /\ fn_call = "none"
    /\ fn_in.kind = "frame"
    /\ ParseTelegram(fn_in.v, 0).exc = "none"
    /\ fn_call' = "craft_json"
    /\ fn_out' = craft_json(Decoded(fn_in.v))
    /\ UNCHANGED fn_in
    /\ UNCHANGED <<workerVars, procVars, crcVars, loadVars, unitVars, csvVars, readerVars>>

\* a record that craft_json accepts: it has both timestamps
CompleteRecord == Decoded(LineStart \o LineTimestamp \o LineGas)

\* the records that go before the decoded one in the list handed to write
LeadingRecords == {<<>>, <<CompleteRecord>>}

\* DbInflux.write(lead + [record]) for the record decoded from a frame,
\* write_points ending as wp
call_db_write(lead, wp) ==
    /\ fn_call = "none"
    /\ fn_in.kind = "frame"
    /\ ParseTelegram(fn_in.v, 0).exc = "none"
    /\ fn_call' = IF wp # "none" THEN "write_refused"
                  ELSE IF lead = <<>> THEN "write" ELSE "write_list"
    /\ fn_out' = db_write(lead \o <<Decoded(fn_in.v)>>, wp)
    /\ UNCHANGED fn_in
    /\ UNCHANGED <<workerVars, procVars, crcVars, loadVars, unitVars, csvVars, readerVars>>

NextFn ==
    \/ fake_serial_start(FALSE)
    \/ call_parse
    \/ call_autoformat
    \/ call_convert_timestamp
    \/ call_craft_json
    \/ \E lead \in LeadingRecords, wp \in WritePointsOutcomes : call_db_write(lead, wp)

SpecFn == InitFn /\ [][NextFn]_vars

---------------------------------------------------------------------------
(* The load manager driven by records and by the passing of time. *)

\* LoadManager(max_consume, max_inject, consume_time, inject_time)
InitLoad ==
    /\ LogUnbound
    /\ WorkerIdle
    /\ CrcIdle
    /\ FnIdle
    /\ lm \in LoadConfigs
    /\ load_value = 0
    /\ state_start_time = NoTime
    /\ timer_start_time = NoTime
    /\ timer_type = "None"
    /\ time = 0
    /\ lm_last = NoCall
    /\ UnitIdle
    /\ CsvIdle
    /\ ReaderIdle

\* time passes between two calls
tick ==
    /\ time < MaxTime
    /\ time' = time + 1
    /\ UNCHANGED <<lm, load_value, state_start_time, timer_start_time, timer_type,
                   lm_last>>
    /\ UNCHANGED <<workerVars, procVars, crcVars, fnVars, unitVars, csvVars, readerVars>>

\* LoadManager.process(data)
process(data) ==
    LET injected == Watts(DataGet(data, "actual_total_injection"))
        consumed == Watts(DataGet(data, "actual_total_consumption"))
        tm == [start |-> timer_start_time, type |-> timer_type]
        r == Process(lm, [value |-> load_value, since |-> state_start_time,
                          timer |-> tm],
                     2 * injected, 2 * consumed, time)
    IN  /\ load_value' = r.value
        /\ state_start_time' = r.since
        /\ timer_start_time' = r.timer.start
        /\ timer_type' = r.timer.type
        /\ lm_last' =
             [called |-> TRUE,
              injected |-> injected,
              consumed |-> consumed,
              was_on |-> is_on(load_value),
              state_time |-> state_time(state_start_time, time),
              started |-> is_started(timer_start_time),
              type |-> timer_type,
              elapsed |-> elapsed(timer_start_time, time),
              branch |-> TimerBranch(lm, load_value, tm, 2 * injected,
                                     2 * consumed, time),
              since |-> state_start_time,
              at |-> time]
        /\ UNCHANGED <<lm, time>>
        /\ UNCHANGED <<workerVars, procVars, crcVars, fnVars, unitVars, csvVars, readerVars>>

NextLoad ==
    \/ tick
    \/ \E data \in Readings : process(data)

SpecLoad == InitLoad /\ [][NextLoad]_vars

---------------------------------------------------------------------------
(* The methods of Load called one at a time on a new Load. *)

InitUnit ==
    /\ LogUnbound
    /\ WorkerIdle
    /\ CrcIdle
    /\ FnIdle
    /\ LoadIdle
    /\ ReaderIdle
    /\ CsvIdle
    /\ UnitIdle

\* Load.on()
load_on ==
    /\ state_start_time' = time
    /\ load_value' = 1
    /\ unit_last' = [op |-> "on", was_on |-> is_on(load_value),
                     since |-> state_start_time, at |-> time,
                     arg |-> "None", exc |-> "none", type |-> timer_type,
                     started |-> is_started(timer_start_time)]
    /\ UNCHANGED <<lm, timer_start_time, timer_type, time, lm_last>>
    /\ UNCHANGED <<workerVars, procVars, crcVars, fnVars, csvVars, readerVars>>

\* Load.off()
load_off ==
    /\ state_start_time' = time
    /\ load_value' = 0
    /\ unit_last' = [op |-> "off", was_on |-> is_on(load_value),
                     since |-> state_start_time, at |-> time,
                     arg |-> "None", exc |-> "none", type |-> timer_type,
                     started |-> is_started(timer_start_time)]
    /\ UNCHANGED <<lm, timer_start_time, timer_type, time, lm_last>>
    /\ UNCHANGED <<workerVars, procVars, crcVars, fnVars, csvVars, readerVars>>

\* the timer as one record
TimerNowIs == [start |-> timer_start_time, type |-> timer_type]

\* what is noted of a call on the timer
TimerCall(op, ty, exc) ==
    [op |-> op, was_on |-> is_on(load_value), since |-> state_start_time,
     at |-> time, arg |-> ty, exc |-> exc, type |-> timer_type,
     started |-> is_started(timer_start_time)]

\* Timer.start(timer_type)
timer_start(ty) ==
    /\ timer_start_time' = TimerStartCall(TimerNowIs, ty, time).timer.start
    /\ timer_type' = TimerStartCall(TimerNowIs, ty, time).timer.type
    /\ unit_last' = TimerCall("start", ty, TimerStartCall(TimerNowIs, ty, time).exc)
    /\ UNCHANGED <<lm, load_value, state_start_time, time, lm_last>>
    /\ UNCHANGED <<workerVars, procVars, crcVars, fnVars, csvVars, readerVars>>

\* Timer.stop()
timer_stop ==
    /\ timer_start_time' = TimerStop.start
    /\ timer_type' = TimerStop.type
    /\ unit_last' = TimerCall("stop", "None", "none")
    /\ UNCHANGED <<lm, load_value, state_start_time, time, lm_last>>
    /\ UNCHANGED <<workerVars, procVars, crcVars, fnVars, csvVars, readerVars>>

\* Timer.restart(timer_type)
timer_restart(ty) ==
    /\ timer_start_time' = RestartCall(TimerNowIs, ty, time).timer.start
    /\ timer_type' = RestartCall(TimerNowIs, ty, time).timer.type
    /\ unit_last' = TimerCall("restart", ty, RestartCall(TimerNowIs, ty, time).exc)
    /\ UNCHANGED <<lm, load_value, state_start_time, time, lm_last>>
    /\ UNCHANGED <<workerVars, procVars, crcVars, fnVars, csvVars, readerVars>>

NextUnit ==
    \/ tick
    \/ load_on
    \/ load_off
    \/ \E ty \in TIMER_TYPES \cup {"None"} : timer_start(ty)
    \/ timer_stop
    \/ \E ty \in TIMER_TYPES \cup {"None"} : timer_restart(ty)

SpecUnit == InitUnit /\ [][NextUnit]_vars

---------------------------------------------------------------------------
(* A CSVWriter driven by write() and close() calls and the passing of time. *)

\* write() is called at most this many times
MaxCsvCalls == 3

\* the values the writer under study is configured with (max_age in seconds)
CsvConfigs == [write_every : {1, 2}, max_lines : {2, 4}, max_age : {1, 300}]

\* a dict without its local_timestamp entry
Stripped(r) == [k \in DOMAIN r \ {"local_timestamp"} |-> r[k]]

\* the telegrams handed to write(): a record as parse returns it, two
\* records reduced to keys of FIELDS, and the empty dict
CsvTelegrams ==
    { Decoded(LineTimestamp),
      Stripped(Decoded(LineTimestamp)),
      Stripped(Decoded(LineTimestamp \o LineConsumption)),
      [k \in {} |-> 0] }

\* the writer and its files as one record
Writer ==
    [batch |-> batch, lines_written |-> lines_written, create_time |-> create_time,
     filehandler |-> filehandler, filename |-> filename, rows |-> csv_rows,
     files |-> csv_files, now |-> time, exc |-> "none"]

\* the state after a call that ended in w
WriterBecomes(w) ==
    /\ batch' = w.batch
    /\ lines_written' = w.lines_written
    /\ create_time' = w.create_time
    /\ filehandler' = w.filehandler
    /\ filename' = w.filename
    /\ csv_rows' = w.rows
    /\ csv_files' = w.files
    /\ time' = w.now

InitCsv ==
    /\ LogUnbound
    /\ WorkerIdle
    /\ CrcIdle
    /\ FnIdle
    /\ LoadIdle
    /\ ReaderIdle
    /\ UnitIdle
    /\ csv_cfg \in CsvConfigs
    /\ batch = <<>>
    /\ lines_written = 0
    /\ create_time = 0
    /\ filehandler = "None"
    /\ filename = NoTime
    /\ csv_rows = <<>>
    /\ csv_files = <<>>
    /\ csv_in = <<>>
    /\ csv_last = NoCsvCall
    /\ csv_pc = "idle"

\* CSVWriter.write(tg), up to its return or to the sleep(1) of line 59
csv_write(tg) ==
    /\ csv_pc = "idle"
    /\ Len(csv_in) < MaxCsvCalls
    /\ IF WriteSleeps(csv_cfg, BatchAppend(Writer, tg), FALSE)
       THEN /\ WriterBecomes(BatchAppend(Writer, tg))
            /\ csv_pc' = "write"
       ELSE /\ WriterBecomes(CsvWrite(csv_cfg, Writer, tg, FALSE))
            /\ csv_pc' = "idle"
    /\ csv_in' = Append(csv_in, tg)
    /\ csv_last' = [op |-> "write",
                    exc |-> IF WriteSleeps(csv_cfg, BatchAppend(Writer, tg), FALSE)
                            THEN "none"
                            ELSE CsvWrite(csv_cfg, Writer, tg, FALSE).exc,
                    flush |-> FALSE, tg |-> tg]
    /\ UNCHANGED <<csv_cfg, lm, load_value, state_start_time, timer_start_time,
                   timer_type, lm_last>>
    /\ UNCHANGED <<workerVars, procVars, crcVars, fnVars, unitVars, readerVars>>

\* CSVWriter.open(), up to its return or to the sleep(1) of line 59
csv_open ==
    /\ csv_pc = "idle"
    /\ IF OpenSleeps(Writer)
       THEN /\ WriterBecomes(Writer)
            /\ csv_pc' = "open"
       ELSE /\ WriterBecomes(CsvOpen(Writer))
            /\ csv_pc' = "idle"
    /\ csv_last' = [op |-> "open", exc |-> "none", flush |-> FALSE, tg |-> <<>>]
    /\ UNCHANGED <<csv_cfg, csv_in, lm, load_value, state_start_time,
                   timer_start_time, timer_type, lm_last>>
    /\ UNCHANGED <<workerVars, procVars, crcVars, fnVars, unitVars, readerVars>>

\* the call that sleeps, from the file creation of line 73 on; the clock of
\* w shows the second whose name is free
AfterSleep(cfg, w, call) ==
    IF call = "write" THEN WriteLoop(cfg, OpenAt(w, w.now)) ELSE OpenAt(w, w.now)

\* sleep(1) of line 59 returns a second later: _generate_filename tests the
\* name of the new second, and sleeps again or lets the call go on to its end
csv_wake ==
    /\ csv_pc # "idle"
    /\ IF NameTaken([Writer EXCEPT !.now = time + TicksPerSecond])
       THEN /\ WriterBecomes([Writer EXCEPT !.now = time + TicksPerSecond])
            /\ UNCHANGED <<csv_pc, csv_last>>
       ELSE /\ WriterBecomes(AfterSleep(csv_cfg,
                                        [Writer EXCEPT !.now = time + TicksPerSecond],
                                        csv_pc))
            /\ csv_pc' = "idle"
            /\ csv_last' = [csv_last EXCEPT !.exc =
                               AfterSleep(csv_cfg,
                                          [Writer EXCEPT !.now = time + TicksPerSecond],
                                          csv_pc).exc]
    /\ UNCHANGED <<csv_cfg, csv_in, lm, load_value, state_start_time,
                   timer_start_time, timer_type, lm_last>>
    /\ UNCHANGED <<workerVars, procVars, crcVars, fnVars, unitVars, readerVars>>

\* CSVWriter.close(flush)
csv_close(flush) ==
    /\ csv_pc = "idle"
    /\ WriterBecomes(CsvClose(csv_cfg, Writer, flush))
    /\ csv_last' = [op |-> "close", exc |-> CsvClose(csv_cfg, Writer, flush).exc,
                    flush |-> flush, tg |-> <<>>]
    /\ UNCHANGED <<csv_cfg, csv_in, csv_pc, lm, load_value, state_start_time,
                   timer_start_time, timer_type, lm_last>>
    /\ UNCHANGED <<workerVars, procVars, crcVars, fnVars, unitVars, readerVars>>

\* the writer as the program and its tests use it: queue_reader calls
\* write(), the tests write() and close()
NextCsv ==
    \/ tick
    \/ \E tg \in CsvTelegrams : csv_write(tg)
    \/ csv_wake
    \/ \E flush \in BOOLEAN : csv_close(flush)

SpecCsv == InitCsv /\ [][NextCsv]_vars

\* the writer under a caller that also calls the public open()
NextCsvOpen ==
    \/ tick
    \/ \E tg \in CsvTelegrams : csv_write(tg)
    \/ csv_open
    \/ csv_wake
    \/ \E flush \in BOOLEAN : csv_close(flush)

SpecCsvOpen == InitCsv /\ [][NextCsvOpen]_vars

---------------------------------------------------------------------------
(* queue_reader fed by the ingest worker through the message queue. *)

\* the worker puts at most this many records
MaxPuts == 3

\* the last tick a sleep of queue_reader moves the clock to
MaxSleepTime == 2

\* 1-0:2.7.0(02.000*kW)
LineInjection ==
    <<49, 45, 48, 58, 50, 46, 55, 46, 48, 40, 48, 50, 46, 48, 48, 48, 42, 107,
      87, 41>> \o CRLF
\* 1-0:2.7.0(--.---*kW)
LineInjectionDashes ==
    <<49, 45, 48, 58, 50, 46, 55, 46, 48, 40, 45, 45, 46, 45, 45, 45, 42, 107,
      87, 41>> \o CRLF

\* records of the decoder, each with a timestamp
QueueRecords ==
    { Decoded(LineTimestamp \o LineGas \o LineInjection),
      Decoded(LineTimestamp \o LineConsumption),
      Decoded(LineTimestamp \o LineInjectionDashes) }

\* the records put on the queue queue_reader reads: one that switches the
\* load on and one the load manager raises on
ReaderRecords ==
    { Decoded(LineTimestamp \o LineGas \o LineInjection),
      Decoded(LineTimestamp \o LineInjectionDashes) }

\* the load manager and the CSV writer handed to queue_reader
ReaderLoadConfig ==
    [max_consume |-> 500, max_inject |-> 1500, consume_time |-> 0, inject_time |-> 0]
ReaderCsvConfig == [write_every |-> 1, max_lines |-> 2, max_age |-> 300]

\* the final files an earlier run has left in the directory of the writer:
\* none, or one named after the second the clock shows (the name holds the
\* year, the minute, the day and the time, so it comes back every month)
FilesLeft ==
    { <<>>, <<[name |-> 0, rows |-> <<Stripped(Decoded(LineTimestamp))>>]>> }

\* a process that is about to run the dispatcher: nothing is configured, no
\* record is queued, and the directory of the CSV files is as it was left
InitReader ==
    /\ LogUnbound
    /\ WorkerIdle
    /\ CrcIdle
    /\ FnIdle
    /\ UnitIdle
    /\ LoadIdle
    /\ ReaderIdle
    /\ csv_cfg = [write_every |-> 0, max_lines |-> 0, max_age |-> 0]
    /\ batch = <<>>
    /\ lines_written = 0
    /\ create_time = 0
    /\ filehandler = "None"
    /\ filename = NoTime
    /\ csv_rows = <<>>
    /\ csv_files \in FilesLeft
    /\ csv_in = <<>>
    /\ csv_last = NoCsvCall
    /\ csv_pc = "idle"

\* what main() hands to main_worker (main.py 227-248, 285): the influx and
\* the csv section when they are enabled, else None, and the list of the
\* load sections, empty or not
MainConfigs == [influx : BOOLEAN, csv : BOOLEAN, loads : BOOLEAN]

\* the exception that leaves main_worker before queue_reader is created
\* (main.py 88-116).  DbInflux takes host, path, username, password and
\* database (influx.py 17-27), not url, token, org and bucket: TypeError at
\* line 89.  Without an influx section, line 100 calls influx_db_cfg.get on
\* None: AttributeError.  LoadManager() lacks its four arguments (aux.py
\* 160-162): TypeError at line 109.  Without a load section nothing is
\* assigned to loads, which line 115 reads: UnboundLocalError.
MainWorkerRaises(cfg) ==
    IF cfg.influx THEN "TypeError"
    ELSE IF cfg.csv THEN "AttributeError"
    ELSE IF cfg.loads THEN "TypeError"
    ELSE "UnboundLocalError"

\* main_worker(log_q, msg_q, influx_db_cfg, csv_cfg, load_cfg): log is bound
\* (line 86), then the call ends in an exception, whatever the configuration
main_worker(cfg) ==
    /\ qr_pc = "none"
    /\ ~log.main
    /\ log' = [log EXCEPT !.main = TRUE]
    /\ fn_call' = "main_worker"
    /\ fn_in' = [kind |-> "config", t |-> "dict", v |-> cfg]
    /\ fn_out' = [exc |-> MainWorkerRaises(cfg)]
    /\ UNCHANGED <<workerVars, crcVars, loadVars, unitVars, csvVars, readerVars>>

\* queue_reader(msg_queue, db, csv_writer, loads, upload_interval) called
\* with the consumers cfg names, up to its loop (main.py 137-140): the
\* log.debug of line 137 raises NameError unless main_worker has bound log
\* in the process, and the coroutine is over
queue_reader_start(cfg) ==
    /\ qr_pc = "none"
    /\ fn_call' = "queue_reader"
    /\ fn_in' = [kind |-> "config", t |-> "dict", v |-> cfg]
    /\ IF ~log.main
       THEN /\ fn_out' = [exc |-> "NameError"]
            /\ qr_pc' = "ended"
            /\ UNCHANGED <<qr_cfg, lm, csv_cfg>>
       ELSE /\ fn_out' = [exc |-> "none"]
            /\ qr_pc' = "loop"
            /\ qr_cfg' = cfg
            /\ lm' = IF cfg.loads THEN ReaderLoadConfig ELSE lm
            /\ csv_cfg' = IF cfg.csv THEN ReaderCsvConfig ELSE csv_cfg
    /\ UNCHANGED <<qr_data, msg_count, q_buffer, qr_put, qr_got, qr_log, qr_points>>
    /\ UNCHANGED <<load_value, state_start_time, timer_start_time, timer_type,
                   time, lm_last>>
    /\ UNCHANGED <<batch, lines_written, create_time, filehandler, filename,
                   csv_rows, csv_files, csv_in, csv_last, csv_pc>>
    /\ UNCHANGED <<procVars, workerVars, crcVars, unitVars>>

\* what the steps of queue_reader leave alone
ReaderFrame ==
    /\ UNCHANGED <<qr_cfg, q_buffer, qr_put>>
    /\ UNCHANGED <<lm, lm_last, csv_cfg, csv_last>>
    /\ UNCHANGED <<procVars, crcVars, fnVars, unitVars>>
    /\ UNCHANGED <<source, telegram, start_of_telegram_detected, telegram_count,
                   eof, worker_exc, reads, last, mon>>

LoadUnchanged ==
    UNCHANGED <<load_value, state_start_time, timer_start_time, timer_type>>

CsvUnchanged ==
    UNCHANGED <<batch, lines_written, create_time, filehandler, filename,
                csv_rows, csv_files, csv_in, csv_pc>>

\* the entry a step adds to the log
Logged(ev) == qr_log' = Append(qr_log, [ev |-> ev, n |-> msg_count])

\* no except clause: the exception is logged and ends the coroutine
Uncaught(at) ==
    /\ qr_log' = Append(qr_log, [ev |-> "exc", n |-> msg_count, at |-> at])
    /\ qr_pc' = "ended"

\* the except clause: log.exception, then asyncio.sleep
Caught(at) ==
    /\ qr_log' = Append(qr_log, [ev |-> "exc", n |-> msg_count, at |-> at])
    /\ qr_pc' = "sleep"

\* msg_q.put(msg) in the worker (digimeter.py 154, 208)
worker_put(rec) ==
    /\ Len(qr_put) < MaxPuts
    /\ q_buffer' = Append(q_buffer, rec)
    /\ qr_put' = Append(qr_put, rec)
    /\ UNCHANGED <<qr_cfg, qr_pc, qr_data, msg_count, qr_got, qr_log, qr_points>>
    /\ UNCHANGED <<workerVars, procVars, crcVars, fnVars, loadVars, unitVars, csvVars>>

\* the queue's feeder thread moves the oldest buffered record into the pipe
queue_feed ==
    /\ q_buffer # <<>>
    /\ msg_q' = Append(msg_q, Head(q_buffer))
    /\ q_buffer' = Tail(q_buffer)
    /\ UNCHANGED <<qr_cfg, qr_pc, qr_data, msg_count, qr_put, qr_got, qr_log, qr_points>>
    /\ UNCHANGED <<source, telegram, start_of_telegram_detected, telegram_count,
                   eof, worker_exc, reads, last, mon>>
    /\ UNCHANGED <<procVars, crcVars, fnVars, loadVars, unitVars, csvVars>>

\* a loop body that writes to the sinks first and runs the load manager last
StepAfterSinksFirst(step) ==
    CASE step = "get" -> "db"
      [] step = "db" -> "csv"
      [] step = "csv" -> "process"
      [] step = "process" -> "loop"

\* the statement that follows step in the body of the loop (lines 143-160)
StepAfter(step) ==
    CASE step = "get" -> "process"
      [] step = "process" -> "db"
      [] step = "db" -> "csv"
      [] step = "csv" -> "loop"

\* msg_queue.get(): the oldest record of the pipe, and what stays
QueueGet(q) == [item |-> Head(q), rest |-> Tail(q)]

\* lines 142-146: the queue is not empty, get()
qr_get ==
    /\ qr_pc = "loop"
    /\ msg_q # <<>>
    /\ qr_data' = QueueGet(msg_q).item
    /\ msg_q' = QueueGet(msg_q).rest
    /\ msg_count' = msg_count + 1
    /\ qr_got' = Append(qr_got, QueueGet(msg_q).item)
    /\ qr_log' = Append(qr_log, [ev |-> "get", n |-> msg_count + 1])
    /\ qr_points' = <<>>
    /\ qr_pc' = StepAfter("get")
    /\ LoadUnchanged /\ CsvUnchanged /\ UNCHANGED time
    /\ ReaderFrame

\* lines 162-163: the queue is empty, sleep
qr_sleep ==
    /\ qr_pc = "loop"
    /\ msg_q = <<>>
    /\ qr_pc' = "sleep"
    /\ UNCHANGED <<qr_data, msg_count, qr_got, qr_log, qr_points, msg_q, time>>
    /\ LoadUnchanged /\ CsvUnchanged
    /\ ReaderFrame

\* asyncio.sleep(0.1) is over (lines 163, 167): the next iteration begins
\* at time t, the clock showing the tick it showed before the sleep or the
\* one after it; the sleeps are followed up to the tick MaxSleepTime
qr_wake(t) ==
    /\ qr_pc = "sleep"
    /\ qr_pc' = "loop"
    /\ \/ t = time
       \/ t = time + 1 /\ t <= MaxSleepTime
    /\ time' = t
    /\ UNCHANGED <<qr_data, msg_count, qr_got, qr_log, qr_points, msg_q>>
    /\ LoadUnchanged /\ CsvUnchanged
    /\ ReaderFrame

\* the load manager as queue_reader finds it
LoadState ==
    [value |-> load_value, since |-> state_start_time,
     timer |-> [start |-> timer_start_time, type |-> timer_type]]

\* lines 148-150: loads.process(data)
qr_process ==
    /\ qr_pc = "process"
    /\ IF ~qr_cfg.loads
       THEN /\ qr_pc' = StepAfter("process")
            /\ UNCHANGED qr_log
            /\ LoadUnchanged
       ELSE /\ load_value' = ProcessData(lm, LoadState, qr_data, time).st.value
            /\ state_start_time' = ProcessData(lm, LoadState, qr_data, time).st.since
            /\ timer_start_time' = ProcessData(lm, LoadState, qr_data, time).st.timer.start
            /\ timer_type' = ProcessData(lm, LoadState, qr_data, time).st.timer.type
            /\ IF ProcessData(lm, LoadState, qr_data, time).exc # "none"
               THEN Caught("process")
               ELSE Logged("process") /\ qr_pc' = StepAfter("process")
    /\ UNCHANGED <<qr_data, msg_count, qr_got, qr_points, msg_q, time>>
    /\ CsvUnchanged
    /\ ReaderFrame

\* lines 152-155: await db.write(data, upload_interval)
qr_db ==
    /\ qr_pc = "db"
    /\ IF ~qr_cfg.db
       THEN /\ qr_pc' = StepAfter("db")
            /\ UNCHANGED <<qr_log, qr_points>>
       ELSE /\ qr_points' = db_write_awaited(qr_data, 0).points
            /\ IF db_write_awaited(qr_data, 0).exc # "none"
               THEN Caught("db")
               ELSE Logged("db") /\ qr_pc' = StepAfter("db")
    /\ UNCHANGED <<qr_data, msg_count, qr_got, msg_q, time>>
    /\ LoadUnchanged /\ CsvUnchanged
    /\ ReaderFrame

\* lines 157-160: csv_writer.write(data), up to its return or to the
\* sleep(1) of csv_writer.py 59
qr_csv ==
    /\ qr_pc = "csv"
    /\ csv_pc = "idle"
    /\ IF ~qr_cfg.csv
       THEN /\ qr_pc' = StepAfter("csv")
            /\ UNCHANGED qr_log
            /\ CsvUnchanged /\ UNCHANGED time
       ELSE IF WriteSleeps(csv_cfg, BatchAppend(Writer, qr_data), FALSE)
       THEN /\ WriterBecomes(BatchAppend(Writer, qr_data))
            /\ csv_in' = Append(csv_in, qr_data)
            /\ csv_pc' = "write"
            /\ UNCHANGED <<qr_pc, qr_log>>
       ELSE /\ WriterBecomes(CsvWrite(csv_cfg, Writer, qr_data, FALSE))
            /\ csv_in' = Append(csv_in, qr_data)
            /\ csv_pc' = "idle"
            /\ IF CsvWrite(csv_cfg, Writer, qr_data, FALSE).exc # "none"
               THEN Caught("csv")
               ELSE Logged("csv") /\ qr_pc' = StepAfter("csv")
    /\ UNCHANGED <<qr_data, msg_count, qr_got, qr_points, msg_q>>
    /\ LoadUnchanged
    /\ ReaderFrame

\* sleep(1) of csv_writer.py 59 returns inside the write() of line 160: a
\* second has passed, _generate_filename tests the name of the new second,
\* and sleeps again or lets write() go on to its end
qr_csv_wake ==
    /\ qr_pc = "csv"
    /\ csv_pc = "write"
    /\ IF NameTaken([Writer EXCEPT !.now = time + TicksPerSecond])
       THEN /\ WriterBecomes([Writer EXCEPT !.now = time + TicksPerSecond])
            /\ UNCHANGED <<csv_pc, qr_pc, qr_log>>
       ELSE /\ WriterBecomes(AfterSleep(csv_cfg,
                                        [Writer EXCEPT !.now = time + TicksPerSecond],
                                        "write"))
            /\ csv_pc' = "idle"
            /\ IF AfterSleep(csv_cfg, [Writer EXCEPT !.now = time + TicksPerSecond],
                             "write").exc # "none"
               THEN Caught("csv")
               ELSE Logged("csv") /\ qr_pc' = StepAfter("csv")
    /\ UNCHANGED <<qr_data, msg_count, qr_got, qr_points, msg_q, csv_in>>
    /\ LoadUnchanged
    /\ ReaderFrame

NextReaderStep ==
    \/ qr_get
    \/ qr_sleep
    \/ \E t \in {time, time + 1} : qr_wake(t)
    \/ qr_process
    \/ qr_db
    \/ qr_csv
    \/ qr_csv_wake

NextReader ==
    \/ \E cfg \in MainConfigs : main_worker(cfg)
    \/ \E cfg \in [loads : BOOLEAN, db : BOOLEAN, csv : BOOLEAN] : queue_reader_start(cfg)
    \/ \E rec \in ReaderRecords : worker_put(rec)
    \/ queue_feed
    \/ NextReaderStep

SpecReader == InitReader /\ [][NextReader]_vars

\* the event loop keeps running the coroutine (loop.run_forever), and the
\* queue's feeder thread keeps running
SpecReaderFair ==
    /\ InitReader
    /\ [][NextReader]_vars
    /\ WF_vars(NextReaderStep)
    /\ WF_vars(queue_feed)

---------------------------------------------------------------------------
(* A LoadManager that is handed records of the decoder, and the signal     *)
(* handler of main.py called in the process that holds it.                 *)

\* LoadManager(max_consume, max_inject, consume_time, inject_time)
InitRecords ==
    /\ LogUnbound
    /\ WorkerIdle
    /\ CrcIdle
    /\ FnIdle
    /\ lm \in LoadConfigs
    /\ load_value = 0
    /\ state_start_time = NoTime
    /\ timer_start_time = NoTime
    /\ timer_type = "None"
    /\ time = 0
    /\ lm_last = NoCall
    /\ UnitIdle
    /\ CsvIdle
    /\ ReaderIdle

\* stopall_handler has run: the process has left through sys.exit(0)
Exited == fn_call = "stopall_handler"

\* LoadManager.process(data) on a record of the decoder (aux.py 173-230)
process_record(data) ==
    /\ ~Exited
    /\ load_value' = ProcessData(lm, LoadState, data, time).st.value
    /\ state_start_time' = ProcessData(lm, LoadState, data, time).st.since
    /\ timer_start_time' = ProcessData(lm, LoadState, data, time).st.timer.start
    /\ timer_type' = ProcessData(lm, LoadState, data, time).st.timer.type
    /\ fn_call' = "process"
    /\ fn_in' = [kind |-> "record", t |-> "dict", v |-> data]
    /\ fn_out' = [exc |-> ProcessData(lm, LoadState, data, time).exc]
    /\ UNCHANGED <<lm, time, lm_last>>
    /\ UNCHANGED <<procVars, workerVars, crcVars, unitVars, csvVars, readerVars>>

\* time passes between two calls, while the process lives
records_tick ==
    /\ ~Exited
    /\ tick

NextRecords ==
    \/ records_tick
    \/ \E data \in QueueRecords : process_record(data)

SpecRecords == InitRecords /\ [][NextRecords]_vars

\* the signals stopall_handler is installed for (main.py 293-295)
Signals == {"SIGINT", "SIGTERM", "SIGHUP"}

\* the level of the pin of the load once the process is gone.  No statement
\* of the repository switches the load at exit; the pin belongs to gpiozero,
\* a library, and whether it keeps its level or is released when the process
\* ends is not decided by this code
PinAtExit(value) == {value, 0}

\* stopall_handler(signum, frame) (main.py 22-28): three log lines on the
\* root logger, then sys.exit(0); pin is the level the pin is left at
stopall_handler(signum, pin) ==
    /\ ~Exited
    /\ pin \in PinAtExit(load_value)
    /\ fn_call' = "stopall_handler"
    /\ fn_in' = [kind |-> "signal", t |-> "str", v |-> signum]
    /\ fn_out' = [exc |-> "SystemExit"]
    /\ load_value' = pin
    /\ UNCHANGED <<lm, state_start_time, timer_start_time, timer_type, time, lm_last>>
    /\ UNCHANGED <<procVars, workerVars, crcVars, unitVars, csvVars, readerVars>>

NextShutdown ==
    \/ NextRecords
    \/ \E signum \in Signals, pin \in {0, 1} : stopall_handler(signum, pin)

SpecShutdown == InitRecords /\ [][NextShutdown]_vars

---------------------------------------------------------------------------
(* Properties *)

\* C1: whichever byte source the worker uses, a record is put on the
\* queue only in an iteration in which check_msg returned True on the frame.
C1_PutOnlyAfterValidCrc ==
    last.put = 1 => last.crc = "true"

\* read_serial, once called, reaches its read loop as far as its own code
\* goes: the call is not ended by the NameError of an unbound log
ReadSerialRuns == source = "serial" => worker_exc # "NameError"

\* C2: in read_serial an end marker read while no capture is in progress
\* puts nothing on the queue, so the number of records published never
\* exceeds the number of start markers read.
C2_StrayEndPublishesNothing ==
    source = "serial" =>
        /\ (last.kind = "end" /\ ~last.capturing => last.put = 0)
        /\ mon.puts <= mon.starts

\* C3: read_serial reads its input, and when that is any number of lines
\* matching neither marker, a start marker, N lines matching neither marker
\* and an end marker, read_serial has assembled exactly one candidate frame,
\* and it is exactly the start line, the N body lines and the end line in
\* the order read.
C3_OneFrameOfAllLines ==
    /\ ReadSerialRuns
    /\ (source = "serial" /\ mon.shape = "done") =>
            /\ mon.cands = 1
            /\ last.emitted
            /\ last.expect # <<>>
            /\ last.candidate = last.expect
            /\ Len(SplitLines(last.candidate)) = mon.nbody + 2

\* C4: read_serial raises nothing of its own; a start marker read during a
\* capture restarts the capture without an exception, and two or more start
\* markers with no end marker between them followed by an end marker yield
\* exactly one candidate frame, holding only the lines from the last of
\* these start markers onward.
C4_StartRestartsCapture ==
    /\ ReadSerialRuns
    /\ source = "serial" =>
            /\ (last.kind = "start" =>
                    /\ last.exc = "none"
                    /\ start_of_telegram_detected
                    /\ telegram = mon.since)
            /\ (last.kind = "end" /\ last.runStarts >= 2 =>
                    /\ last.emitted
                    /\ last.runCands = 1
                    /\ last.candidate = last.expect)

\* the timestamp line(s) of a frame: it has at least one, and each carries
\* twelve digits of a calendar date and time followed by S or W
IsTimestampLine(line) == StartsWith(line, FIELDS[1].code)

WellFormedTimestamp(frame) ==
    /\ \E k \in 1..Len(SplitLines(frame)) : IsTimestampLine(SplitLines(frame)[k])
    /\ \A k \in 1..Len(SplitLines(frame)) :
          IsTimestampLine(SplitLines(frame)[k]) =>
              /\ Len(Slice(SplitLines(frame)[k], 10, 23)) = 13
              /\ Slice(SplitLines(frame)[k], 22, 23) \in {<<83>>, <<87>>}
              /\ IsoWellFormed(<<50, 48>> \o Slice(SplitLines(frame)[k], 10, 12) \o <<45>>
                           \o Slice(SplitLines(frame)[k], 12, 14) \o <<45>>
                           \o Slice(SplitLines(frame)[k], 14, 16) \o <<84>>
                           \o Slice(SplitLines(frame)[k], 16, 18) \o <<58>>
                           \o Slice(SplitLines(frame)[k], 18, 20) \o <<58>>
                           \o Slice(SplitLines(frame)[k], 20, 22)
                           \o <<43, 48, 48, 58, 48, 48>>)

\* the checksum line of a frame carries the checksum of what precedes it
ChecksumAgrees(frame) ==
    /\ FindBang(frame) > 0
    /\ IntBase16(SubSeq(frame, FindBang(frame) + 1, Len(frame))).ok
    /\ IntBase16(SubSeq(frame, FindBang(frame) + 1, Len(frame))).val
         = Crc16Lha(SubSeq(frame, 1, FindBang(frame)))

\* C5: read_serial takes the frames off its port, and a frame captured from
\* a start marker to the next end marker that passes the CRC check and has a
\* well-formed timestamp line results in exactly one record put on the queue
\* in the very iteration that read the end marker, i.e. before the next line
\* is read.
C5_ValidFramePublishedAtOnce ==
    /\ ReadSerialRuns
    /\ (/\ source = "serial"
        /\ last.kind = "end"
        /\ last.expect # <<>>
        /\ ChecksumAgrees(last.expect)
        /\ WellFormedTimestamp(last.expect)) =>
            /\ last.put = 1
            /\ msg_q # <<>>
            /\ msg_q[Len(msg_q)] = ParseTelegram(last.expect, reads - 1).msg
            /\ Len(msg_q) = mon.puts

\* C6: the worker keeps running, and a CRC-valid frame is published whatever
\* its timestamp line looks like (absent, empty or malformed): drift
\* computation never rejects it.
C6_TimestampNeverRejects ==
    /\ ReadSerialRuns
    /\ (source = "serial" /\ last.emitted /\ last.crc = "true") => last.put = 1

\* C7: the worker loop does not end, and the partial frame that a read or
\* decode failure interrupted is never published.
C7_PartialFrameNeverPublished ==
    /\ ReadSerialRuns
    /\ (source = "serial" /\ last.put = 1) =>
            ~(mon.hasPartial /\ last.candidate = mon.partial)

\* C8: read_serial stays alive; a candidate frame whose checksum text is not
\* hexadecimal, or that has no "!", makes check_msg return False without an
\* exception and nothing is put on the queue; the frames captured afterwards
\* are still assembled from their own lines and validated by their checksum.
C8_NonHexChecksumRejected ==
    /\ ReadSerialRuns
    /\ source = "serial" =>
            /\ (last.emitted /\ NonHexTail(last.candidate) =>
                    /\ last.crc = "false"
                    /\ last.exc = "none"
                    /\ last.put = 0)
            /\ (last.afterReject /\ last.kind = "end" /\ last.expect # <<>> =>
                    /\ last.emitted
                    /\ last.candidate = last.expect
                    /\ (last.crc = "true") = ChecksumAgrees(last.expect))

\* C9: on a frame that has a "!", check_msg returns, and it returns True
\* exactly when the text after the first "!" parses as a hexadecimal number
\* and that number is the CRC-16/ARC of the bytes up to and including that
\* "!".
C9_TrueExactlyOnMatchingChecksum ==
    (crc_stage \in {"raw", "signed", "flipped"} /\ FindBang(crc_frame) > 0) =>
        /\ crc_result.exc = "none"
        /\ crc_result.ret = ChecksumAgrees(crc_frame)

\* C10: a content ending in "!", followed by its checksum in hexadecimal, is
\* accepted by check_msg (it returns True), and the same with any single bit
\* of the content inverted is refused (it returns False).
C10_ChecksumRoundTrip ==
    /\ (crc_stage = "signed" => crc_result = [exc |-> "none", ret |-> TRUE])
    /\ (crc_stage = "flipped" => crc_result = [exc |-> "none", ret |-> FALSE])

\* FIELDS entry j applies to the line: the line starts with its OBIS code
Applies(j, line) == StartsWith(line, FIELDS[j].code)

\* C11: parse returns a record, which has local_timestamp and, besides it, a
\* key only if some line of the frame starts with the OBIS code of a FIELDS
\* entry with that key; a field whose line is absent from the frame is
\* absent from the record, and no error comes of an absent line: parse does
\* not raise NameError, and any other exception it raises comes of a line
\* that is there.
C11_OnlyKeysOfMatchedLines ==
    fn_call = "parse" =>
        /\ fn_out.exc # "NameError"
        /\ fn_out.exc = "none" =>
              /\ "local_timestamp" \in DOMAIN fn_out.msg
              /\ \A k \in (DOMAIN fn_out.msg) \ {"local_timestamp"} :
                    \E i \in 1..Len(SplitLines(fn_in.v)), j \in 1..Len(FIELDS) :
                        FIELDS[j].key = k /\ Applies(j, SplitLines(fn_in.v)[i])
        /\ fn_out.exc # "none" =>
              \E i \in 1..Len(SplitLines(fn_in.v)), j \in 1..Len(FIELDS) :
                  Applies(j, SplitLines(fn_in.v)[i])

\* the frame has the line 0-1:24.2.3(211024195005S)(03775.342*m3)
HasGasLine(frame) ==
    \E i \in 1..Len(SplitLines(frame)) : SplitLines(frame)[i] \o CRLF = LineGas

\* C12: parse, called on a frame, gets as far as its lines and applies to
\* each line every FIELDS entry whose code the line starts with, not only
\* the first: the record has the key of each such entry, and a line starting
\* with 0-1:24.2.3 yields both total_gas_consumption (characters 26..35) and
\* gas_timestamp (characters 11..24).
C12_EveryMatchingEntryApplied ==
    /\ fn_call = "parse" => fn_out.exc # "NameError"
    /\ (fn_call = "parse" /\ fn_out.exc = "none") =>
        /\ \A i \in 1..Len(SplitLines(fn_in.v)), j \in 1..Len(FIELDS) :
              Applies(j, SplitLines(fn_in.v)[i]) => FIELDS[j].key \in DOMAIN fn_out.msg
        /\ HasGasLine(fn_in.v) =>
              /\ fn_out.msg["total_gas_consumption"]
                   = [t |-> "float", v |-> <<48, 51, 55, 55, 53, 46, 51, 52, 50>>]
              /\ fn_out.msg["gas_timestamp"]
                   = [t |-> "str",
                      v |-> <<50, 49, 49, 48, 50, 52, 49, 57, 53, 48, 48, 53, 83>>]

\* the longest prefix of the string of the form digits "." digits, or <<>>
DecimalPrefix(value) ==
    IF MatchesFloat(value)
    THEN SubSeq(value, 1, Len(value) - Len(SkipDigits(Tail(SkipDigits(value)))))
    ELSE <<>>

\* C13: autoformat never raises on a string: an all-digit string gives the
\* integer it denotes, a string beginning with digits, "." and digits gives
\* the floating-point number of that decimal prefix whatever follows it, and
\* every other string is returned unchanged.
C13_AutoformatNeverRaises ==
    fn_call = "autoformat" =>
        /\ fn_out.exc = "none"
        /\ IF AllDigits(fn_in.v)
           THEN fn_out.t = "int" /\ fn_out.v = DecValue(0, fn_in.v)
           ELSE IF DecimalPrefix(fn_in.v) # <<>>
           THEN fn_out.t = "float" /\ fn_out.v = DecimalPrefix(fn_in.v)
           ELSE fn_out.t = "str" /\ fn_out.v = fn_in.v

\* twelve digits followed by S or W
IsTimestampToken(v) ==
    /\ Len(v) = 13
    /\ AllDigits(SubSeq(v, 1, 12))
    /\ v[13] \in {83, 87}

\* C14: convert_timestamp maps YYMMDDHHMMSS followed by S or W to
\* 20YY-MM-DDTHH:MM:SS followed by +02:00 for S and by +01:00 for W,
\* whatever the date.
C14_TimestampToIso ==
    (fn_call = "convert_timestamp" /\ fn_in.t = "str" /\ IsTimestampToken(fn_in.v)) =>
        /\ fn_out.exc = "none"
        /\ fn_out.iso =
              <<50, 48>> \o SubSeq(fn_in.v, 1, 2) \o <<45>> \o SubSeq(fn_in.v, 3, 4)
              \o <<45>> \o SubSeq(fn_in.v, 5, 6) \o <<84>> \o SubSeq(fn_in.v, 7, 8)
              \o <<58>> \o SubSeq(fn_in.v, 9, 10) \o <<58>> \o SubSeq(fn_in.v, 11, 12)
              \o (IF fn_in.v[13] = 83 THEN <<43, 48, 50, 58, 48, 48>>
                  ELSE <<43, 48, 49, 58, 48, 48>>)

\* 1 January with the letter S: 2021-01-01T00:00:00+02:00
C14_Witness ==
    /\ fn_call = "convert_timestamp"
    /\ fn_in.v = <<50, 49, 48, 49, 48, 49, 48, 48, 48, 48, 48, 48, 83>>
    /\ fn_out.exc = "none"
    /\ SubSeq(fn_out.iso, 1, 10) = <<50, 48, 50, 49, 45, 48, 49, 45, 48, 49>>
    /\ SubSeq(fn_out.iso, 20, 25) = <<43, 48, 50, 58, 48, 48>>


\* the last process() call switched the load on / off
SwitchedOn == lm_last.called /\ ~lm_last.was_on /\ is_on(load_value)
SwitchedOff == lm_last.called /\ lm_last.was_on /\ ~is_on(load_value)

\* C15: a process() call made while the load is off, with injected power above
\* the switch-on threshold (max_inject) and with the load's state_time above
\* the hold time (inject_time), switches the load on, whatever the earlier
\* readings were.
C15_SingleReadingSwitchesOn ==
    ( /\ lm_last.called
      /\ ~lm_last.was_on
      /\ lm_last.injected > lm.max_inject
      /\ lm_last.state_time > lm.inject_time )
    => is_on(load_value)

\* C16: a process() call switches the load off exactly when the load is on,
\* its state_time is above the hold time (consume_time) and the consumed power
\* is below the switch-off threshold (max_consume, which is not negative).
C16_SwitchOffRule ==
    lm_last.called =>
        ( SwitchedOff <=>
            ( /\ lm_last.was_on
              /\ lm_last.state_time > lm.consume_time
              /\ lm_last.consumed < lm.max_consume ) )

\* C17: process() never switches the load off before it has been on for
\* consume_time seconds, and never switches it on before it has been off for
\* inject_time seconds (a load that was never switched has no state_time).
C17_MinimumDwell ==
    /\ SwitchedOff => lm_last.state_time >= lm.consume_time
    /\ SwitchedOn  => ( lm_last.state_time = -1
                        \/ lm_last.state_time >= lm.inject_time )

\* with both times at least a second, the load is on, off and on again, each
\* time at the earliest moment
C17_Witness ==
    /\ SwitchedOn
    /\ lm.inject_time >= 1
    /\ lm.consume_time >= 1
    /\ lm_last.state_time = lm.inject_time

\* the inject (consume) timer as the if / elif chain of the last call left it
\* has run for the configured time when the switching steps are reached
InjectTimerDue ==
    /\ lm_last.branch.type = "inject"
    /\ lm_last.at - lm_last.branch.start >= lm.inject_time * TicksPerSecond
ConsumeTimerDue ==
    /\ lm_last.branch.type = "consume"
    /\ lm_last.at - lm_last.branch.start >= lm.consume_time * TicksPerSecond

\* C18: a process() call made while the load is off, with injected power at or
\* above max_inject, at least inject_time seconds after the inject timer was
\* started (the timer is restarted by any reading below max_inject, so every
\* reading since its start was at or above max_inject), switches the load on
\* and stops the timer.
C18_SustainedInjectionSwitchesOn ==
    ( /\ lm_last.called
      /\ ~lm_last.was_on
      /\ lm_last.injected >= lm.max_inject
      /\ InjectTimerDue )
    => ( is_on(load_value) /\ ~is_started(timer_start_time) )

\* C19: a process() call made while the load is on, with consumed power at or
\* above max_consume, at least consume_time seconds after the consume timer
\* was started (any reading below max_consume restarts it), switches the load
\* off and stops the timer.
C19_SustainedConsumptionSwitchesOff ==
    ( /\ lm_last.called
      /\ lm_last.was_on
      /\ lm_last.consumed >= lm.max_consume
      /\ ConsumeTimerDue )
    => ( ~is_on(load_value) /\ ~is_started(timer_start_time) )

\* the consume timer, started by an earlier call, has run for exactly
\* consume_time >= 1 seconds and the load is switched off
C19_Witness ==
    /\ SwitchedOff
    /\ lm.consume_time >= 1
    /\ lm_last.consumed >= lm.max_consume
    /\ lm_last.started
    /\ lm_last.type = "consume"
    /\ lm_last.elapsed = lm.consume_time
    /\ ~is_started(timer_start_time)

\* the timer when the last process() call returned
TimerNow == [start |-> timer_start_time, type |-> timer_type]

\* C20: a process() call that finds the timer not started starts it with type
\* "inject" if the load is off and injected >= max_inject, with type "consume"
\* if the load is on and consumed >= max_consume (the timer is then running
\* with that type when the call returns, unless the call also made the switch
\* it times), and otherwise leaves the timer stopped and the load as it was.
C20_TimerStartRules ==
    ( lm_last.called /\ ~lm_last.started ) =>
        IF ~lm_last.was_on /\ lm_last.injected >= lm.max_inject
        THEN /\ lm_last.branch = TimerStart("inject", lm_last.at)
             /\ \/ TimerNow = lm_last.branch /\ ~is_on(load_value)
                \/ SwitchedOn /\ ~is_started(timer_start_time)
        ELSE IF lm_last.was_on /\ lm_last.consumed >= lm.max_consume
        THEN /\ lm_last.branch = TimerStart("consume", lm_last.at)
             /\ \/ TimerNow = lm_last.branch /\ is_on(load_value)
                \/ SwitchedOff /\ ~is_started(timer_start_time)
        ELSE /\ ~is_started(timer_start_time)
             /\ timer_type = "None"
             /\ is_on(load_value) = lm_last.was_on
             /\ state_start_time = lm_last.since

\* a call on a load that is on, with the timer stopped and consumption at
\* max_consume, leaves a running consume timer
C20_Witness ==
    /\ lm_last.called
    /\ ~lm_last.started
    /\ lm_last.was_on
    /\ lm_last.consumed >= lm.max_consume
    /\ is_on(load_value)
    /\ timer_type = "consume"
    /\ timer_start_time = lm_last.at

\* C21: a process() call that finds the timer started and reads a value back
\* below the threshold (injected < max_inject with the load off, consumed <
\* max_consume with the load on) returns with the timer started at the time of
\* the call, of the type it had, and with the load as it was.
C21_LowReadingRestartsTimer ==
    ( /\ lm_last.called
      /\ lm_last.started
      /\ \/ ~lm_last.was_on /\ lm_last.injected < lm.max_inject
         \/ lm_last.was_on /\ lm_last.consumed < lm.max_consume )
    => ( /\ is_started(timer_start_time)
         /\ timer_type = lm_last.type
         /\ elapsed(timer_start_time, lm_last.at) = 0
         /\ is_on(load_value) = lm_last.was_on
         /\ state_start_time = lm_last.since )

\* C22: Load.state_time is at least 0 in every reachable state, also before
\* the load was first switched.
C22_StateTimeNotNegative == state_time(state_start_time, time) >= 0

\* C23: on() on a load that is on, and off() on a load that is off, change
\* neither is_on nor the time of the load's last transition.
C23_RepeatedSwitchIsNoOp ==
    ( \/ unit_last.op = "on" /\ unit_last.was_on
      \/ unit_last.op = "off" /\ ~unit_last.was_on /\ unit_last.since # NoTime )
    => ( /\ is_on(load_value) = unit_last.was_on
         /\ state_start_time = unit_last.since )

\* the keys of FIELDS
FieldKeys == { FIELDS[j].key : j \in 1..Len(FIELDS) }

\* C29: for a record from which a FIELDS key is absent, craft_json and write
\* do not raise, and the points carry every measurement the record holds.
C29_SinksTolerateMissingKeys ==
    ( /\ fn_call \in {"craft_json", "write"}
      /\ FieldKeys \ DOMAIN Decoded(fn_in.v) # {} )
    => ( /\ fn_out.exc = "none"
         /\ \A k \in DOMAIN Decoded(fn_in.v) \ TimestampKeys :
               \E i \in 1..Len(fn_out.points) :
                  /\ k \in DOMAIN fn_out.points[i].fields
                  /\ fn_out.points[i].fields[k] = Decoded(fn_in.v)[k] )

\* the telegram is a row of the open file or of a file under its final name
IsRow(tg) ==
    \/ \E i \in 1..Len(csv_rows) : csv_rows[i] = tg
    \/ \E f \in 1..Len(csv_files) : \E i \in 1..Len(csv_files[f].rows) :
          csv_files[f].rows[i] = tg

\* the telegram is waiting in the batch
IsPending(tg) == \E i \in 1..Len(batch) : batch[i] = tg

\* C30: write() accepts a record made of FIELDS keys and local_timestamp
\* without raising, and the record is then waiting in the batch or is a row.
C30_DecodedRecordBecomesRow ==
    ( /\ csv_last.op = "write"
      /\ "local_timestamp" \in DOMAIN csv_last.tg
      /\ DOMAIN csv_last.tg \subseteq FIELDNAMES \cup {"local_timestamp"} )
    => ( /\ csv_last.exc = "none"
         /\ IsRow(csv_last.tg) \/ IsPending(csv_last.tg) )

\* the load_on field of the 'load' point among points
LoadOnField(points) == points[3].fields["load_on"]

\* the load manager has handled a record, the last thing done
ProcessedRecord ==
    /\ fn_call = "process"
    /\ fn_out.exc = "none"

\* C24: once the load manager has handled a record, the 'load' point that
\* craft_json builds for that record carries the load's state at that moment
\* as load_on, never a missing value.
C24_LoadOnIsLoadState ==
    (ProcessedRecord /\ craft_json(fn_in.v).exc = "none")
        => /\ LoadOnField(craft_json(fn_in.v).points).t = "int"
           /\ LoadOnField(craft_json(fn_in.v).points).v = load_value

\* entry i of the log is the start of a sink write, finished or failed
IsSinkWrite(i) ==
    \/ qr_log[i].ev \in {"db", "csv"}
    \/ qr_log[i].ev = "exc" /\ qr_log[i].at \in {"db", "csv"}

\* entry i of the log is the InfluxDB write
IsDbWrite(i) ==
    \/ qr_log[i].ev = "db"
    \/ qr_log[i].ev = "exc" /\ qr_log[i].at = "db"

\* C26: for every record got, process(record) has completed before a sink
\* write for it begins, the InfluxDB write comes before the CSV write, and
\* everything done for a record precedes the get of the next one.
C26_ProcessBeforeSinks ==
    /\ \A i \in 1..Len(qr_log) :
         (IsSinkWrite(i) /\ qr_cfg.loads)
            => \E j \in 1..(i - 1) :
                  qr_log[j].ev = "process" /\ qr_log[j].n = qr_log[i].n
    /\ \A i \in 1..Len(qr_log) : \A j \in 1..(i - 1) :
         /\ qr_log[j].n <= qr_log[i].n
         /\ (IsDbWrite(i) /\ qr_log[j].n = qr_log[i].n) => ~IsSinkWrite(j)
    /\ qr_pc \in {"process", "db", "csv"} => qr_data = qr_got[Len(qr_got)]

\* a record went through process and then a sink write, and the next record
\* has been got after that
C26_Witness ==
    \E i, j, k \in 1..Len(qr_log) :
        /\ i < j /\ j < k
        /\ qr_log[i].ev = "process" /\ qr_log[i].n = 1
        /\ IsSinkWrite(j) /\ qr_log[j].n = 1
        /\ qr_log[k].ev = "get" /\ qr_log[k].n = 2

\* an exception has been caught while a record was being handled
ExceptionLogged == \E i \in 1..Len(qr_log) : qr_log[i].ev = "exc"

\* the n-th record put has been got and the iteration for it is over
Handled(n) ==
    /\ msg_count >= n
    /\ msg_count = n => qr_pc \in {"loop", "sleep"}

\* C27: an exception raised by the load manager or a sink does not end
\* queue_reader: once one has been logged, every record that is or will be
\* on the queue is still got and handled.
C27_ReaderSurvivesExceptions ==
    \A n \in 1..MaxPuts :
        (ExceptionLogged /\ Len(qr_put) >= n) ~> Handled(n)

\* the first record ended in a logged exception and the second record has
\* been got and handled after it
C27_Witness ==
    /\ \E i, j \in 1..Len(qr_log) :
          /\ i < j
          /\ qr_log[i].ev = "exc" /\ qr_log[i].n = 1
          /\ qr_log[j].ev = "get" /\ qr_log[j].n = 2
    /\ Handled(2)

\* entry i of the log is the record being passed to csv_writer.write
IsCsvWrite(i) ==
    \/ qr_log[i].ev = "csv"
    \/ qr_log[i].ev = "exc" /\ qr_log[i].at = "csv"

\* C28: every record got is passed to the CSV writer when one is configured,
\* whatever happened to that record at the load manager or the InfluxDB write.
C28_CsvWriterGetsEveryRecord ==
    \A n \in 1..msg_count :
        (qr_cfg.csv /\ Handled(n))
            => \E i \in 1..Len(qr_log) : IsCsvWrite(i) /\ qr_log[i].n = n

\* the number of data rows in the files of the list
RECURSIVE RowCount(_)
RowCount(files) ==
    IF files = <<>> THEN 0 ELSE Len(Head(files).rows) + RowCount(Tail(files))

\* the number of data rows written so far, to the current file or to earlier ones
RowsOnDisk == Len(csv_rows) + RowCount(csv_files)

\* the names of the files closed under their final name
FinalNames == { csv_files[i].name : i \in 1..Len(csv_files) }

\* the current file has reached max_lines rows or the age max_age
CurrentFileDue ==
    \/ (csv_cfg.max_age * TicksPerSecond) + create_time <= time
    \/ lines_written = csv_cfg.max_lines

\* C31: a call that writes rows leaves the current file closed and renamed
\* exactly when, after the last row, its row count has reached max_lines or
\* its age max_age; a row written while no file is open goes to a newly
\* created file; and no file ever holds more than max_lines rows.
C31_RotationExactlyWhenDue ==
    /\ [](\A i \in 1..Len(csv_files) : Len(csv_files[i].rows) <= csv_cfg.max_lines)
    /\ [](Len(csv_rows) <= csv_cfg.max_lines)
    /\ [][ RowsOnDisk' > RowsOnDisk =>
             /\ (filehandler' = "closed") <=> CurrentFileDue'
             /\ filehandler' = "closed" =>
                    /\ Len(csv_files') = Len(csv_files) + 1
                    /\ csv_files'[Len(csv_files')].name = filename'
             /\ filehandler # "open" =>
                    /\ filename' \notin FinalNames
                    /\ lines_written' = RowsOnDisk' - RowsOnDisk ]_vars

\* a file was closed when it had max_lines rows, before the age max_age,
\* and the row written after that is in a new file that is still open
C31_Witness ==
    /\ Len(csv_files) = 1
    /\ Len(csv_files[1].rows) = csv_cfg.max_lines
    /\ filehandler = "open"
    /\ filename # csv_files[1].name
    /\ Len(csv_rows) = 1

\* C32: after close(flush=True) on a writer that has opened a file, the
\* current file is closed and, if it holds a row, is listed under its final
\* name: it is neither open nor under its work-in-progress name.
C32_FlushingCloseClosesFile ==
    (csv_last.op = "close" /\ csv_last.flush /\ filehandler # "None")
        => /\ filehandler = "closed"
           /\ lines_written > 0 =>
                 /\ csv_files # <<>>
                 /\ csv_files[Len(csv_files)].name = filename

\* every row written so far, file after file in the order the files were
\* closed, the rows of the current file last
RECURSIVE FileRows(_)
FileRows(files) ==
    IF files = <<>> THEN <<>> ELSE Head(files).rows \o FileRows(Tail(files))

AllRows == FileRows(csv_files) \o csv_rows

\* how many times x occurs in the sequence
Occurrences(seq, x) == Cardinality({ i \in 1..Len(seq) : seq[i] = x })

\* C33: after close(flush=True) the batch is empty and every telegram that
\* was passed to write() is exactly one row of some file.
C33_NoTelegramLost ==
    (csv_last.op = "close" /\ csv_last.flush)
        => /\ batch = <<>>
           /\ \A i \in 1..Len(csv_in) :
                 Truthy(csv_in[i])
                    => Occurrences(AllRows, csv_in[i]) = Occurrences(csv_in, csv_in[i])

\* the timer was started or restarted by the call that was made last
TimerSetByLastCall ==
    /\ lm_last.called
    /\ is_started(timer_start_time)
    /\ timer_start_time = lm_last.at

\* C34: a running timer counts from a reading that was across its threshold:
\* injected >= max_inject for an inject timer, consumed >= max_consume for a
\* consume timer; never from a reading on the other side.
C34_TimerCountsFromCrossing ==
    TimerSetByLastCall
        => /\ timer_type = "inject" => lm_last.injected >= lm.max_inject
           /\ timer_type = "consume" => lm_last.consumed >= lm.max_consume

\* C35: Timer.restart leaves the timer started with elapsed time 0; its type
\* is the type given, or the type it had before when none is given.
C35_RestartKeepsOrSetsType ==
    unit_last.op = "restart"
        => /\ unit_last.exc = "none"
           /\ is_started(timer_start_time)
           /\ elapsed(timer_start_time, unit_last.at) = 0
           /\ timer_type = IF unit_last.arg # "None" THEN unit_last.arg
                           ELSE unit_last.type

\* C36: when stopall_handler has handled a termination signal and the process
\* has exited, the load is off.
C36_LoadOffAfterShutdown ==
    Exited => ~is_on(load_value)

\* C37: fake_serial terminates: once the last line of the replay file has
\* been read it leaves its read loop (to wait for the queue to empty and
\* return), so the loop makes no iteration after the end of the file.
C37_FakeSerialLeavesLoopAtEof ==
    [][ (source = "fake" /\ eof) => reads' = reads ]_vars

\* the manager in the last call, after the if / elif chain on the timer
AfterChain ==
    [value |-> IF lm_last.was_on THEN 1 ELSE 0, since |-> lm_last.since,
     timer |-> lm_last.branch]

\* the manager in the last call, after the switch-on step
AfterSwitchOn == SwitchOn(lm, AfterChain, 2 * lm_last.injected, lm_last.at)

\* the last call switched the load on, resp. off
ActuatedOn == AfterSwitchOn # AfterChain
ActuatedOff == SwitchOff(lm, AfterSwitchOn, lm_last.at) # AfterSwitchOn

\* C38: in every state reached through process() calls the timer is started
\* iff its type is set, an inject timer exists only while the load is off, a
\* consume timer only while it is on, every switch of the load leaves the
\* timer stopped, and one call performs at most one actuation.
C38_TimerAgreesWithLoad ==
    /\ is_started(timer_start_time) <=> timer_type # "None"
    /\ timer_type \in {"None", "inject", "consume"}
    /\ timer_type = "inject" => ~is_on(load_value)
    /\ timer_type = "consume" => is_on(load_value)
    /\ lm_last.called =>
          /\ (ActuatedOn \/ ActuatedOff) => ~is_started(timer_start_time)
          /\ is_on(load_value) # lm_last.was_on => ~is_started(timer_start_time)
          /\ ~(ActuatedOn /\ ActuatedOff)

\* a call with a consume timer running has switched the load off and left
\* the timer stopped
C38_Witness ==
    /\ lm_last.called
    /\ lm_last.was_on
    /\ lm_last.branch.type = "consume"
    /\ ActuatedOff
    /\ ~is_on(load_value)
    /\ ~is_started(timer_start_time)

\* both timer lengths are at least a second
TimesAtLeastOne == lm.inject_time >= 1 /\ lm.consume_time >= 1

\* C39: with inject_time >= 1 and consume_time >= 1, a process() call whose
\* own reading has injected < max_inject never switches the load on, and one
\* whose own reading has consumed < max_consume never switches it off.
C39_LowReadingNeverSwitches ==
    TimesAtLeastOne
        => /\ SwitchedOn => lm_last.injected >= lm.max_inject
           /\ SwitchedOff => lm_last.consumed >= lm.max_consume

\* with both times at least a second: the load, switched off at least a
\* second earlier, was switched on again by a call that found an inject
\* timer running
C39_Witness ==
    /\ TimesAtLeastOne
    /\ SwitchedOn
    /\ lm_last.started
    /\ lm_last.type = "inject"
    /\ lm_last.state_time >= 1

\* the sequence sub can be had from seq by leaving elements out
RECURSIVE IsSubsequence(_, _)
IsSubsequence(sub, seq) ==
    IF sub = <<>> THEN TRUE
    ELSE IF seq = <<>> THEN FALSE
    ELSE IF Head(sub) = Head(seq) THEN IsSubsequence(Tail(sub), Tail(seq))
    ELSE IsSubsequence(sub, Tail(seq))

\* C40: the rows of the files, taken file after file, are in the order in
\* which the telegrams were passed to write(): a telegram passed earlier never
\* comes after one passed later.
C40_RowsInWriteOrder == IsSubsequence(AllRows, csv_in)

=========================================================================
